---- MODULE Spec2Model ----
(***************************************************************************)
(* Model of the NTU course scraper: the repository layer (the four batch   *)
(* writers of database/repository.js over the tables of database/init.js)  *)
(* and the exam parser (parsers/examParser.js).                            *)
(*                                                                         *)
(* A table is a set of rows (records, one field per column).  A JS value   *)
(* that may be null is <<>> (null) or <<v>> (the value v); JS strings and  *)
(* SQL TEXT NOT NULL columns are strings.  NOW() is the time of the        *)
(* transaction's BEGIN, a counter that grows with every transaction.       *)
(***************************************************************************)
EXTENDS Integers, Sequences, FiniteSets, TLC

VARIABLES
  semester_metadata,  \* table semester_metadata
  course_content,     \* table course_content
  course_schedule,    \* table course_schedule
  exam_timetable,     \* table exam_timetable
  now,                \* the database clock
  call,               \* the batch write that returned last: its input and its outcome
  contentLast,        \* per content key: the record the last committed batch holding it gave
  page,               \* parseExamDetails: the document cheerio loaded from html
  argStudentType,     \* parseExamDetails: its studentType argument
  hasExamTypeLegend,  \* parseExamDetails: its constant of that name
  pc,                 \* parseExamDetails: "tables" (between tables), "rows", "done"
  tableNo,            \* parseExamDetails: the table being walked
  rowNo,              \* parseExamDetails: the row of it that was handled last
  parsed,             \* parseExamDetails: its array exams, the records pushed so far
  origin,             \* per pushed record: the table and row it came from
  schedHtml,          \* parseSchedule: the document cheerio loaded from html
  schedTableNo,       \* parseSchedule: the tables $('table').each has handled
  schedCurrentCourse, \* parseSchedule: its currentCourse
  schedCourses,       \* parseSchedule: its array courses
  schedOrigin,        \* per pushed course: the table its sections came from
  contentHtml,        \* parseContent: the document cheerio loaded from html
  contentPc,          \* parseContent: "tables" (between tables), "rows", "done"
  contentTableNo,     \* parseContent: the table being walked
  contentRowNo,       \* parseCourseTable: the row of it that was handled last
  contentWalk,        \* parseCourseTable: its courses, course and lastLabel
  contentOrigin,      \* per pushed course: the table and row that opened it
  contentResult,      \* parseContent: what it returns
  vacQuery,           \* GET /vacancy: req.query
  vacFetch,           \* GET /vacancy: what fetchVacancy does, throw or return
  vacPc,              \* GET /vacancy: where the handler stands
  vacRowNo,           \* parseVacancyHtml: the row of the table handled last
  vacIndexes,         \* parseVacancyHtml: its array indexes
  vacCurrentIndex,    \* parseVacancyHtml: currentIndex, a place in indexes or 0
  vacOrigin,          \* per class session of an index: the row it came from
  vacResult,          \* parseVacancyHtml: what it returns
  vacResponse,        \* GET /vacancy: the response sent
  numArg,             \* parseNumber: its argument
  numPc,              \* parseNumber: "idle", "call", "returned"
  numResult,          \* parseNumber: how it ends
  optHtml,            \* the form parsers: the elements of the document, in document order
  optPc,              \* the form parsers: "idle", "schedule", "content"
  optResult,          \* the form parsers: what the call returns
  examMetaHtml,       \* parseExamMetadata: the inputs, selects and radio buttons of the document
  examMetaPc,         \* parseExamMetadata: "idle", "returned"
  examMetaResult,     \* parseExamMetadata: what it returns
  metaJob,            \* processMetadata: job.data.triggerNext and the two forms fetched
  metaPc,             \* processMetadata: where it stands
  uniqueEntries,      \* processMetadata: the entries for the database, by year and semester
  allScrapeCandidates, \* processMetadata: one candidate per option of either form
  jobsToTrigger,      \* processMetadata: the scrape jobs prepared
  backfillCandidates, \* processMetadata: the backfill jobs prepared, by year and semester
  examPlansAvailable, \* processMetadata: the plan numbers found in WIS
  scrapeQueue,        \* the jobs added to the queue, in order
  writer,             \* a batch write as its connection sees it: the writer and the number of its queries
  writerPc,           \* the batch write: where it stands
  writerLeft,         \* the batch write: the queries of its loop still to run
  writerAcquired,     \* the batch write: has pool.connect() given it a client?
  writerReleases,     \* the batch write: the calls of client.release() it has made
  writerError,        \* the batch write: what failed, "none" when nothing did
  writerCalls,        \* the batch writes made so far
  poolHeld,           \* the clients checked out of the pool
  racePc,             \* schedule writers: where each caller of saveCourseSchedule stands
  raceList,           \* schedule writers: the course each caller saves
  raceSnap,           \* schedule writers: the rows the DELETE of a caller saw when it started
  raceDeleted,        \* schedule writers: the rows a caller has deleted and not yet committed
  raceInserted,       \* schedule writers: the rows a caller has inserted and not yet committed
  raceLeft,           \* schedule writers: the sections a caller has still to insert
  raceOverlapped,     \* schedule writers: the pairs of callers in flight at once
  scraperJob,         \* examScraper: job.data, and the page fetchExamMetadata answers with
  scraperPc,          \* examScraper: where it stands
  plansToTry,         \* examScraper: the plan numbers to try
  scraperPlanIx,      \* examScraper: the plans tried so far
  planDetailsSeen,    \* examScraper: per plan tried, what parseExamMetadata gave for its page
  allExams,           \* examScraper: the records collected
  allExamsPlan,       \* examScraper: per record collected, the plan it was parsed from
  successfulPlan,     \* examScraper: the plan info of the last plan that gave records
  scraperSaved        \* examScraper: the arguments of the call of saveExamTimetable

dbvars == <<semester_metadata, course_content, course_schedule, exam_timetable,
            now, call, contentLast>>

parservars == <<page, argStudentType, hasExamTypeLegend, pc, tableNo, rowNo, parsed,
                origin>>

schedvars == <<schedHtml, schedTableNo, schedCurrentCourse, schedCourses, schedOrigin>>

contentvars == <<contentHtml, contentPc, contentTableNo, contentRowNo, contentWalk,
                 contentOrigin, contentResult>>

vacancyvars == <<vacQuery, vacFetch, vacPc, vacRowNo, vacIndexes, vacCurrentIndex,
                 vacOrigin, vacResult, vacResponse>>

numbervars == <<numArg, numPc, numResult>>

optionvars == <<optHtml, optPc, optResult>>

exammetavars == <<examMetaHtml, examMetaPc, examMetaResult>>

metavars == <<metaJob, metaPc, uniqueEntries, allScrapeCandidates, jobsToTrigger,
              backfillCandidates, examPlansAvailable, scrapeQueue>>

connvars == <<writer, writerPc, writerLeft, writerAcquired, writerReleases,
              writerError, writerCalls, poolHeld>>

racevars == <<racePc, raceList, raceSnap, raceDeleted, raceInserted, raceLeft,
              raceOverlapped>>

scrapervars == <<scraperJob, scraperPc, plansToTry, scraperPlanIx, planDetailsSeen,
                 allExams, allExamsPlan, successfulPlan, scraperSaved>>

vars == <<dbvars, parservars, schedvars, contentvars, vacancyvars, numbervars,
          optionvars, exammetavars, metavars, connvars, racevars, scrapervars>>

\* What stands still while the repository layer, the exam parser, the schedule
\* parser, the content parser, the vacancy route, parseNumber, the form
\* parsers, parseExamMetadata, processMetadata, a batch write's connection,
\* the callers of saveCourseSchedule, examScraper run.
idleInRepository == <<parservars, schedvars, contentvars, vacancyvars, numbervars,
                      optionvars, exammetavars, metavars, connvars, racevars,
                      scrapervars>>

idleInExamParser == <<dbvars, schedvars, contentvars, vacancyvars, numbervars,
                      optionvars, exammetavars, metavars, connvars, racevars,
                      scrapervars>>

idleInScheduleParser == <<dbvars, parservars, contentvars, vacancyvars, numbervars,
                          optionvars, exammetavars, metavars, connvars, racevars,
                          scrapervars>>

idleInContentParser == <<dbvars, parservars, schedvars, vacancyvars, numbervars,
                         optionvars, exammetavars, metavars, connvars, racevars,
                         scrapervars>>

idleInVacancy == <<dbvars, parservars, schedvars, contentvars, numbervars, optionvars,
                   exammetavars, metavars, connvars, racevars, scrapervars>>

idleInParseNumber == <<dbvars, parservars, schedvars, contentvars, vacancyvars,
                       optionvars, exammetavars, metavars, connvars, racevars,
                       scrapervars>>

idleInOptions == <<dbvars, parservars, schedvars, contentvars, vacancyvars, numbervars,
                   exammetavars, metavars, connvars, racevars, scrapervars>>

idleInExamMetadata == <<dbvars, parservars, schedvars, contentvars, vacancyvars,
                        numbervars, optionvars, metavars, connvars, racevars,
                        scrapervars>>

idleInMetadata == <<dbvars, parservars, schedvars, contentvars, vacancyvars,
                    numbervars, optionvars, exammetavars, connvars, racevars,
                    scrapervars>>

idleInConnection == <<dbvars, parservars, schedvars, contentvars, vacancyvars,
                      numbervars, optionvars, exammetavars, metavars, racevars,
                      scrapervars>>

\* The schedule writers write course_schedule; the rest of the database stands
\* still with the other components.
idleInScheduleWriters == <<semester_metadata, course_content, exam_timetable, now,
                           call, contentLast, parservars, schedvars, contentvars,
                           vacancyvars, numbervars, optionvars, exammetavars, metavars,
                           connvars, scrapervars>>

idleInExamScraper == <<dbvars, parservars, schedvars, contentvars, vacancyvars,
                       numbervars, optionvars, exammetavars, metavars, connvars,
                       racevars>>

\* Longest batch handed to a writer, and the number of transactions in a run.
MaxBatch == 2
MaxCalls == 2

Null == <<>>
Some(v) == <<v>>

\* The sequences over S of length 0..n.
SeqsUpTo(S, n) == UNION {[1..k -> S] : k \in 0..n}

RECURSIVE SeqToSet(_)
SeqToSet(s) == IF s = <<>> THEN {} ELSE {Head(s)} \cup SeqToSet(Tail(s))

(***************************************************************************)
(* The four tables as one value.                                           *)
(***************************************************************************)
DB == [meta |-> semester_metadata, content |-> course_content,
       schedule |-> course_schedule, exam |-> exam_timetable]

(***************************************************************************)
(* semester_metadata: INSERT ... ON CONFLICT (year, semester) DO UPDATE.   *)
(***************************************************************************)
MetaKey(r) == <<r.year, r.semester>>

MetaUpsert(tbl, item, t) ==
  LET hit == {r \in tbl : MetaKey(r) = MetaKey(item)}
  IN  IF hit = {}
      THEN tbl \cup {[year |-> item.year, semester |-> item.semester,
                      label |-> item.label, value |-> item.value, updated_at |-> t]}
      ELSE (tbl \ hit) \cup
           {[r EXCEPT !.label = item.label, !.value = item.value, !.updated_at = t] : r \in hit}

(***************************************************************************)
(* course_content: INSERT ... ON CONFLICT (course_code, acadsem) DO UPDATE *)
(***************************************************************************)
ContentKey(r) == <<r.course_code, r.acadsem>>

\* The VALUES list: a new row; created_at and updated_at default to NOW().
ContentInsertRow(c, t) ==
  [course_code |-> c.course_code, acadsem |-> c.acadsem, title |-> c.title, au |-> c.au,
   description |-> c.description, prerequisites |-> c.prerequisites,
   mutual_exclusions |-> c.mutual_exclusions, department_code |-> c.department_code,
   not_available_to_programme |-> c.not_available_to_programme,
   not_available_to_all_programme_with |-> c.not_available_to_all_programme_with,
   not_available_as_bde_ue_to_programme |-> c.not_available_as_bde_ue_to_programme,
   is_unrestricted_elective |-> c.is_unrestricted_elective,
   is_broadening_deepening_elective |-> c.is_broadening_deepening_elective,
   grade_type |-> c.grade_type, created_at |-> t, updated_at |-> t]

\* A plausible slip: the SET list also refreshes created_at.
ContentUpdateRowTouchingCreated(r, c, t) ==
  [ContentInsertRow(c, t) EXCEPT !.created_at = t]

\* A plausible slip: the SET list forgets grade_type.
ContentUpdateRowForgettingGrade(r, c, t) ==
  [ContentInsertRow(c, t) EXCEPT !.created_at = r.created_at, !.grade_type = r.grade_type]

\* The SET list of DO UPDATE: every non-key column from EXCLUDED, updated_at = NOW().
ContentUpdateRow(r, c, t) ==
  [r EXCEPT !.title = c.title, !.au = c.au, !.description = c.description,
            !.prerequisites = c.prerequisites, !.mutual_exclusions = c.mutual_exclusions,
            !.department_code = c.department_code,
            !.not_available_to_programme = c.not_available_to_programme,
            !.not_available_to_all_programme_with = c.not_available_to_all_programme_with,
            !.not_available_as_bde_ue_to_programme = c.not_available_as_bde_ue_to_programme,
            !.is_unrestricted_elective = c.is_unrestricted_elective,
            !.is_broadening_deepening_elective = c.is_broadening_deepening_elective,
            !.grade_type = c.grade_type, !.updated_at = t]

ContentUpsert(tbl, c, t) ==
  LET hit == {r \in tbl : ContentKey(r) = ContentKey(c)}
  IN  IF hit = {}
      THEN tbl \cup {ContentInsertRow(c, t)}
      ELSE (tbl \ hit) \cup {ContentUpdateRow(r, c, t) : r \in hit}

(***************************************************************************)
(* course_schedule: per course a DELETE by (course_code, acadsem), then an *)
(* INSERT ... ON CONFLICT (primary key) DO NOTHING per deduplicated        *)
(* section.                                                                *)
(***************************************************************************)
SchedulePK(r) == <<r.index, r.course_code, r.acadsem, r.type, r.day, r.time, r.venue>>

\* A plausible slip: the DELETE has no WHERE clause.
DeleteScheduleAll(tbl, course_code, acadsem) == {}

DeleteSchedule(tbl, course_code, acadsem) ==
  {r \in tbl : ~(r.course_code = course_code /\ r.acadsem = acadsem)}

\* The VALUES list of insertSql; updated_at defaults to NOW().
ScheduleRow(s, c, t) ==
  [index |-> s.index, course_code |-> c.course_code, acadsem |-> c.acadsem,
   type |-> s.type, group |-> s.group, day |-> s.day, time |-> s.time,
   venue |-> s.venue, remark |-> s.remark, created_at |-> t, updated_at |-> t]

InsertSchedule(tbl, row) ==
  IF \E r \in tbl : SchedulePK(r) = SchedulePK(row) THEN tbl ELSE tbl \cup {row}

\* The template string that keys the deduplication.
DedupKey(s, c) ==
  s.index \o "|" \o c.course_code \o "|" \o c.acadsem \o "|" \o s.type \o "|" \o
  s.day \o "|" \o s.time \o "|" \o s.venue

\* uniqueSections: the sections whose key no earlier section of the course has.
UniqueSections(c) ==
  LET RECURSIVE Walk(_, _, _)
      Walk(i, seenKeys, uniqueSections) ==
        IF i > Len(c.sections) THEN uniqueSections
        ELSE LET s == c.sections[i]
                 key == DedupKey(s, c)
             IN  IF key \in seenKeys
                 THEN Walk(i + 1, seenKeys, uniqueSections)
                 ELSE Walk(i + 1, seenKeys \cup {key}, Append(uniqueSections, s))
  IN  Walk(1, {}, <<>>)

(***************************************************************************)
(* exam_timetable: INSERT ... ON CONFLICT (course_code, acadsem,           *)
(* student_type) DO UPDATE.  The parameters are exam.x || null, and        *)
(* exam.student_type || 'UE'.                                              *)
(***************************************************************************)
ExamKey(r) == <<r.course_code, r.acadsem, r.student_type>>

\* s || null for a JS string s.
OrNull(s) == IF s = "" THEN Null ELSE Some(s)

\* v || null for a JS value v that is null or a string.
OptOrNull(v) == IF v = Null \/ v = Some("") THEN Null ELSE v

\* s || 'UE'
OrUE(s) == IF s = "" THEN "UE" ELSE s

\* The parameter list of one INSERT of saveExamTimetable.
ExamParams(exam, academicSession, planNo) ==
  [course_code |-> exam.course_code, acadsem |-> exam.acadsem,
   course_title |-> OrNull(exam.course_title), exam_date |-> OrNull(exam.exam_date),
   exam_time |-> OrNull(exam.exam_time), exam_duration |-> OrNull(exam.exam_duration),
   venue |-> OrNull(exam.venue), seat_no |-> OrNull(exam.seat_no),
   student_type |-> OrUE(exam.student_type), exam_type |-> OptOrNull(exam.exam_type),
   academic_session |-> OrNull(academicSession), plan_no |-> OrNull(planNo)]

ExamInsertRow(p, t) ==
  [course_code |-> p.course_code, acadsem |-> p.acadsem, course_title |-> p.course_title,
   exam_date |-> p.exam_date, exam_time |-> p.exam_time, exam_duration |-> p.exam_duration,
   venue |-> p.venue, seat_no |-> p.seat_no, student_type |-> p.student_type,
   exam_type |-> p.exam_type, academic_session |-> p.academic_session,
   plan_no |-> p.plan_no, created_at |-> t, updated_at |-> t]

ExamUpdateRow(r, p, t) ==
  [r EXCEPT !.course_title = p.course_title, !.exam_date = p.exam_date,
            !.exam_time = p.exam_time, !.exam_duration = p.exam_duration,
            !.venue = p.venue, !.seat_no = p.seat_no, !.exam_type = p.exam_type,
            !.academic_session = p.academic_session, !.plan_no = p.plan_no,
            !.updated_at = t]

ExamUpsert(tbl, p, t) ==
  LET hit == {r \in tbl : ExamKey(r) = ExamKey(p)}
  IN  IF hit = {}
      THEN tbl \cup {ExamInsertRow(p, t)}
      ELSE (tbl \ hit) \cup {ExamUpdateRow(r, p, t) : r \in hit}

(***************************************************************************)
(* The statements a writer sends between BEGIN and COMMIT, in order.       *)
(***************************************************************************)
MetaStatements(metaList) ==
  [i \in 1..Len(metaList) |-> [kind |-> "meta_upsert", item |-> metaList[i]]]

ContentStatements(courses) ==
  [i \in 1..Len(courses) |-> [kind |-> "content_upsert", item |-> courses[i]]]

ExamStatements(exams, academicSession, planNo) ==
  [i \in 1..Len(exams) |->
     [kind |-> "exam_upsert", item |-> ExamParams(exams[i], academicSession, planNo)]]

\* One course of saveCourseSchedule: the DELETE, then an INSERT per unique section.
ScheduleCourseStatements(c) ==
  LET u == UniqueSections(c)
  IN  <<[kind |-> "schedule_delete", item |-> c]>> \o
      [i \in 1..Len(u) |-> [kind |-> "schedule_insert", item |-> c, section |-> u[i]]]

RECURSIVE ScheduleStatements(_)
ScheduleStatements(courses) ==
  IF courses = <<>> THEN <<>>
  ELSE ScheduleCourseStatements(Head(courses)) \o ScheduleStatements(Tail(courses))

\* A plausible slip: the schedule is appended to, never refreshed: no DELETE,
\* and a plain INSERT of every row into a table whose key does not stop it.
ExecAppendingSchedule(db, stmt, t) ==
  CASE stmt.kind = "meta_upsert" ->
         [db EXCEPT !.meta = MetaUpsert(@, stmt.item, t)]
    [] stmt.kind = "content_upsert" ->
         [db EXCEPT !.content = ContentUpsert(@, stmt.item, t)]
    [] stmt.kind = "exam_upsert" ->
         [db EXCEPT !.exam = ExamUpsert(@, stmt.item, t)]
    [] stmt.kind = "schedule_delete" -> db
    [] stmt.kind = "schedule_insert" ->
         [db EXCEPT !.schedule = @ \cup {ScheduleRow(stmt.section, stmt.item, t)}]

\* What one statement does to the tables inside the transaction.
Exec(db, stmt, t) ==
  CASE stmt.kind = "meta_upsert" ->
         [db EXCEPT !.meta = MetaUpsert(@, stmt.item, t)]
    [] stmt.kind = "content_upsert" ->
         [db EXCEPT !.content = ContentUpsert(@, stmt.item, t)]
    [] stmt.kind = "exam_upsert" ->
         [db EXCEPT !.exam = ExamUpsert(@, stmt.item, t)]
    [] stmt.kind = "schedule_delete" ->
         [db EXCEPT !.schedule = DeleteSchedule(@, stmt.item.course_code, stmt.item.acadsem)]
    [] stmt.kind = "schedule_insert" ->
         [db EXCEPT !.schedule = InsertSchedule(@, ScheduleRow(stmt.section, stmt.item, t))]

RECURSIVE ExecAll(_, _, _)
ExecAll(db, stmts, t) ==
  IF stmts = <<>> THEN db ELSE ExecAll(Exec(db, Head(stmts), t), Tail(stmts), t)

(***************************************************************************)
(* try { BEGIN; statements; COMMIT } catch { ROLLBACK; throw }.            *)
(* failAt = 0: every statement and the COMMIT succeed.  failAt = k > 0:    *)
(* the k-th query after BEGIN is rejected (k = Len(stmts) + 1 is the       *)
(* COMMIT); the queries before it have run inside the transaction.         *)
(***************************************************************************)
\* A plausible slip: the queries run outside a transaction (pool.query), so
\* the ROLLBACK undoes nothing.
RollbackKeepingPrefix(before, working) == working

Rollback(before, working) == before

Commit(before, working) == working

Transaction(db, stmts, failAt, t) ==
  IF failAt = 0
  THEN Commit(db, ExecAll(db, stmts, t))
  ELSE Rollback(db, ExecAll(db, SubSeq(stmts, 1, failAt - 1), t))

(***************************************************************************)
(* The records the scrapers hand to the writers.                           *)
(***************************************************************************)
MetaInputs ==
  {[year |-> "2025", semester |-> "1", label |-> "2025 Sem 1", value |-> "2025_1"],
   [year |-> "2025", semester |-> "1", label |-> "AY2025-26 Semester 1", value |-> "2025;1"],
   [year |-> "2024", semester |-> "2", label |-> "2024 Sem 2", value |-> "2024_2"]}

ContentInputs ==
  {[course_code |-> "SC1", acadsem |-> "2025_1", title |-> "NETWORKS", au |-> Some(3),
    description |-> "Layers.", prerequisites |-> "SC0", mutual_exclusions |-> "",
    department_code |-> "CSC", not_available_to_programme |-> "",
    not_available_to_all_programme_with |-> "", not_available_as_bde_ue_to_programme |-> "BCE",
    is_unrestricted_elective |-> TRUE, is_broadening_deepening_elective |-> TRUE,
    grade_type |-> ""],
   [course_code |-> "SC1", acadsem |-> "2025_1", title |-> "COMPUTER NETWORKS", au |-> Some(0),
    description |-> "", prerequisites |-> "", mutual_exclusions |-> "CE1",
    department_code |-> "CSC(CE)", not_available_to_programme |-> "EEE",
    not_available_to_all_programme_with |-> "(Admyr 2021)",
    not_available_as_bde_ue_to_programme |-> "",
    is_unrestricted_elective |-> FALSE, is_broadening_deepening_elective |-> FALSE,
    grade_type |-> "Pass/Fail"],
   [course_code |-> "SC1", acadsem |-> "2025_2", title |-> "NETWORKS", au |-> Null,
    description |-> "Layers.", prerequisites |-> "", mutual_exclusions |-> "",
    department_code |-> "", not_available_to_programme |-> "",
    not_available_to_all_programme_with |-> "", not_available_as_bde_ue_to_programme |-> "",
    is_unrestricted_elective |-> TRUE, is_broadening_deepening_elective |-> FALSE,
    grade_type |-> ""]}

Section(index, type, group, day, time, venue, remark) ==
  [index |-> index, type |-> type, group |-> group, day |-> day, time |-> time,
   venue |-> venue, remark |-> remark]

SecLec == Section("10284", "LEC", "G1", "MON", "0830-0920", "LT1", "")
\* the key of SecLec again, with another group and remark
SecLecAgain == Section("10284", "LEC", "G2", "MON", "0830-0920", "LT1", "Wk1-13")
SecTut == Section("10284", "TUT", "T1", "TUE", "0930-1020", "TR1", "")
\* two sections that differ in type and day, whose template strings are equal
SecBarType == Section("10285", "LAB|A", "L1", "WED", "1030-1120", "SWLAB", "")
SecBarDay == Section("10285", "LAB", "L2", "A|WED", "1030-1120", "SWLAB", "")
\* the key of SecBarDay again, with another group and remark
SecBarDayAgain == Section("10285", "LAB", "L3", "A|WED", "1030-1120", "SWLAB", "Wk2-12")

ScheduleInputs ==
  {[course_code |-> "SC1", acadsem |-> "2025_1", sections |-> <<SecLec, SecLecAgain, SecTut>>],
   [course_code |-> "SC1", acadsem |-> "2025_1", sections |-> <<SecBarType, SecBarDay,
                                                                    SecBarDayAgain>>],
   [course_code |-> "SC1", acadsem |-> "2025_2", sections |-> <<SecLec>>]}

\* Rows as parseExamDetails emits them, before student_type is attached.
ExamRows ==
  {[course_code |-> "SC1", course_title |-> "NETWORKS", acadsem |-> "2025_1",
    exam_date |-> "27 APRIL 2026", exam_time |-> "5.00 pm", exam_duration |-> "2 hr",
    venue |-> "", seat_no |-> "", exam_type |-> Null],
   [course_code |-> "SC1", course_title |-> "", acadsem |-> "2025_1",
    exam_date |-> "28 APRIL 2026", exam_time |-> "9.00 am", exam_duration |-> "",
    venue |-> "HALL A", seat_no |-> "", exam_type |-> Some("Open Book")]}

\* scrapeExamsForSemester runs examScraper with 'UE', then with ''.
StudentTypes == {"UE", ""}

WithStudentType(row, studentType) ==
  [course_code |-> row.course_code, course_title |-> row.course_title,
   acadsem |-> row.acadsem, exam_date |-> row.exam_date, exam_time |-> row.exam_time,
   exam_duration |-> row.exam_duration, venue |-> row.venue, seat_no |-> row.seat_no,
   student_type |-> studentType, exam_type |-> row.exam_type]

AcademicSession == "Semester 1 Academic Year 2025-2026"
PlanNo == "113"

ContentKeys == {ContentKey(c) : c \in ContentInputs}

\* The last record of a batch that has key k.
LastWithKey(batch, KeyOf(_), k) ==
  batch[CHOOSE i \in 1..Len(batch) :
          /\ KeyOf(batch[i]) = k
          /\ \A j \in (i + 1)..Len(batch) : KeyOf(batch[j]) # k]

KeysOf(batch, KeyOf(_)) == {KeyOf(batch[i]) : i \in 1..Len(batch)}

(***************************************************************************)
(* The state machine of the repository layer.                              *)
(***************************************************************************)
NoCall == [op |-> "none", batch |-> <<>>, pre |-> [meta |-> {}, content |-> {},
           schedule |-> {}, exam |-> {}], outcome |-> "none", failAt |-> 0,
           repeated |-> FALSE]

InitDb ==
  /\ semester_metadata = {}
  /\ course_content = {}
  /\ course_schedule = {}
  /\ exam_timetable = {}
  /\ now = 0
  /\ call = NoCall
  /\ contentLast = [k \in ContentKeys |-> Null]

\* The batches a writer may be called with: any, when no call is being looked
\* at; the batch of the call that has just committed (the scrape run once
\* more), when that call was this writer's.
Callable(op, batches) ==
  IF call = NoCall THEN batches
  ELSE IF call.op = op /\ call.outcome = "committed" THEN {call.batch}
  ELSE {}

\* One call of a writer: the early return on an empty batch, or one transaction.
Write(op, batch, stmts, failAt) ==
  IF batch = <<>>
  THEN /\ call' = [op |-> op, batch |-> batch, pre |-> DB, outcome |-> "returned",
                   failAt |-> 0, repeated |-> FALSE]
       /\ UNCHANGED <<semester_metadata, course_content, course_schedule,
                      exam_timetable, now>>
  ELSE /\ now < MaxCalls
       /\ now' = now + 1
       /\ LET after == Transaction(DB, stmts, failAt, now + 1)
          IN  /\ semester_metadata' = after.meta
              /\ course_content' = after.content
              /\ course_schedule' = after.schedule
              /\ exam_timetable' = after.exam
       /\ call' = [op |-> op, batch |-> batch, pre |-> DB,
                   outcome |-> IF failAt = 0 THEN "committed" ELSE "threw",
                   failAt |-> failAt, repeated |-> call # NoCall]

\* The caller is done with the outcome of the call.
Return ==
  /\ call # NoCall
  /\ call' = NoCall
  /\ UNCHANGED <<semester_metadata, course_content, course_schedule, exam_timetable,
                 now, contentLast>>
  /\ UNCHANGED idleInRepository

SaveMetadata ==
  /\ UNCHANGED idleInRepository
  /\ \E metaList \in Callable("saveMetadata", SeqsUpTo(MetaInputs, MaxBatch)) :
       \E failAt \in 0..(Len(metaList) + 1) :
         /\ Write("saveMetadata", metaList, MetaStatements(metaList), failAt)
         /\ UNCHANGED contentLast

SaveCourseContent ==
  /\ UNCHANGED idleInRepository
  /\ \E courses \in Callable("saveCourseContent", SeqsUpTo(ContentInputs, MaxBatch)) :
       \E failAt \in 0..(Len(courses) + 1) :
         /\ Write("saveCourseContent", courses, ContentStatements(courses), failAt)
         /\ contentLast' =
              [k \in ContentKeys |->
                 IF courses # <<>> /\ failAt = 0 /\ k \in KeysOf(courses, ContentKey)
                 THEN Some(LastWithKey(courses, ContentKey, k))
                 ELSE contentLast[k]]

SaveCourseSchedule ==
  /\ UNCHANGED idleInRepository
  /\ \E courses \in Callable("saveCourseSchedule", SeqsUpTo(ScheduleInputs, MaxBatch)) :
       \E failAt \in 0..(Len(ScheduleStatements(courses)) + 1) :
         /\ Write("saveCourseSchedule", courses, ScheduleStatements(courses), failAt)
         /\ UNCHANGED contentLast

\* What examScraper collects and saves: the rows of its studentType.
ExamBatches ==
  {[i \in 1..Len(rows) |-> WithStudentType(rows[i], studentType)] :
     rows \in SeqsUpTo(ExamRows, MaxBatch), studentType \in StudentTypes}

SaveExamTimetable ==
  /\ UNCHANGED idleInRepository
  /\ \E exams \in Callable("saveExamTimetable", ExamBatches) :
       \E failAt \in 0..(Len(exams) + 1) :
         /\ Write("saveExamTimetable", exams,
                  ExamStatements(exams, AcademicSession, PlanNo), failAt)
         /\ UNCHANGED contentLast

Next ==
  SaveMetadata \/ SaveCourseContent \/ SaveCourseSchedule \/ SaveExamTimetable \/ Return

\* The parser is not running while the repository layer is looked at.
ParserIdle ==
  /\ page = [text |-> <<>>, tables |-> <<>>]
  /\ argStudentType = "UE"
  /\ hasExamTypeLegend = FALSE
  /\ pc = "done"
  /\ tableNo = 0
  /\ rowNo = 0
  /\ parsed = <<>>
  /\ origin = <<>>

\* parseSchedule is not running.
ScheduleParserIdle ==
  /\ schedHtml = <<>>
  /\ schedTableNo = 0
  /\ schedCurrentCourse = Null
  /\ schedCourses = <<>>
  /\ schedOrigin = <<>>

\* parseContent is not running.
ContentParserIdle ==
  /\ contentHtml = <<>>
  /\ contentPc = "done"
  /\ contentTableNo = 0
  /\ contentRowNo = 0
  /\ contentWalk = [courses |-> <<>>, course |-> 0, lastLabel |-> ""]
  /\ contentOrigin = <<>>
  /\ contentResult = <<>>

VacancyIdle ==
  /\ vacQuery = [course_code |-> Null, index |-> Null]
  /\ vacFetch = [throws |-> "", isString |-> TRUE, script |-> <<>>, tables |-> <<>>]
  /\ vacPc = "idle"
  /\ vacRowNo = 0
  /\ vacIndexes = <<>>
  /\ vacCurrentIndex = 0
  /\ vacOrigin = <<>>
  /\ vacResult = <<>>
  /\ vacResponse = <<>>

ParseNumberIdle ==
  /\ numArg = [isString |-> TRUE, text |-> <<>>]
  /\ numPc = "idle"
  /\ numResult = [thrown |-> FALSE, value |-> 0]

\* The form parsers are not running.
OptionsIdle ==
  /\ optHtml = <<>>
  /\ optPc = "idle"
  /\ optResult = [acadsem |-> <<>>, courseYears |-> <<>>]

\* parseExamMetadata is not running.
ExamMetadataIdle ==
  /\ examMetaHtml = <<>>
  /\ examMetaPc = "idle"
  /\ examMetaResult = <<>>

\* processMetadata is not running.
MetadataIdle ==
  /\ metaJob = [triggerNext |-> FALSE, scheduleHtml |-> <<>>, contentHtml |-> <<>>]
  /\ metaPc = "idle"
  /\ uniqueEntries = <<>>
  /\ allScrapeCandidates = <<>>
  /\ jobsToTrigger = <<>>
  /\ backfillCandidates = <<>>
  /\ examPlansAvailable = <<>>
  /\ scrapeQueue = <<>>

\* No batch write is looked at step by step.
ConnectionIdle ==
  /\ writer = [op |-> "none", queries |-> 0]
  /\ writerPc = "idle"
  /\ writerLeft = 0
  /\ writerAcquired = FALSE
  /\ writerReleases = 0
  /\ writerError = "none"
  /\ writerCalls = 0
  /\ poolHeld = 0

\* The callers of saveCourseSchedule: the processors of the two queue jobs
\* that write schedules, and the handler of the manual route.
QueueJobs == {"scrape-schedule", "scrape-backfill"}

ScheduleCallers == QueueJobs \cup {"GET /schedule"}

\* No caller of saveCourseSchedule is running.
ScheduleWritersIdle ==
  /\ racePc = [w \in ScheduleCallers |-> "done"]
  /\ raceList = [w \in ScheduleCallers |-> Null]
  /\ raceSnap = [w \in ScheduleCallers |-> {}]
  /\ raceDeleted = [w \in ScheduleCallers |-> {}]
  /\ raceInserted = [w \in ScheduleCallers |-> {}]
  /\ raceLeft = [w \in ScheduleCallers |-> <<>>]
  /\ raceOverlapped = {}

\* examScraper is not running.
ExamScraperIdle ==
  /\ scraperJob = [acadsem |-> <<>>, studentType |-> "UE", availablePlans |-> <<>>,
                   metadataHtml |-> <<>>]
  /\ scraperPc = "idle"
  /\ plansToTry = <<>>
  /\ scraperPlanIx = 0
  /\ planDetailsSeen = <<>>
  /\ allExams = <<>>
  /\ allExamsPlan = <<>>
  /\ successfulPlan = Null
  /\ scraperSaved = Null

Init ==
  /\ InitDb
  /\ ExamScraperIdle
  /\ ScheduleWritersIdle
  /\ ConnectionIdle
  /\ MetadataIdle
  /\ ExamMetadataIdle
  /\ OptionsIdle
  /\ ParserIdle
  /\ ScheduleParserIdle
  /\ ContentParserIdle
  /\ VacancyIdle
  /\ ParseNumberIdle


Spec == Init /\ [][Next]_vars

(***************************************************************************)
(* The exam parser, parseExamDetails(html, acadsem, studentType).          *)
(*                                                                         *)
(* A JS string is here the sequence of its characters, so that includes,   *)
(* endsWith, slice, trim and the case conversions are computed.  The       *)
(* document is its free body text and its tables; a table is the sequence  *)
(* of its rows, a row the sequence of its cells, a cell its tag and text.  *)
(***************************************************************************)
\* Most data rows of a table of the page.
MaxRows == 2

\* String.prototype.includes
Includes(text, pattern) ==
  \E i \in 0..(Len(text) - Len(pattern)) : SubSeq(text, i + 1, i + Len(pattern)) = pattern

\* String.prototype.endsWith, of one character
EndsWith(text, ch) == Len(text) > 0 /\ text[Len(text)] = ch

\* courseCode.slice(0, -1)
SliceOffLast(text) == SubSeq(text, 1, Len(text) - 1)

CasePairs ==
  {<<"A", "a">>, <<"B", "b">>, <<"C", "c">>, <<"D", "d">>, <<"E", "e">>, <<"F", "f">>,
   <<"G", "g">>, <<"H", "h">>, <<"I", "i">>, <<"J", "j">>, <<"K", "k">>, <<"L", "l">>,
   <<"M", "m">>, <<"N", "n">>, <<"O", "o">>, <<"P", "p">>, <<"Q", "q">>, <<"R", "r">>,
   <<"S", "s">>, <<"T", "t">>, <<"U", "u">>, <<"V", "v">>, <<"W", "w">>, <<"X", "x">>,
   <<"Y", "y">>, <<"Z", "z">>}

\* The upper-case letter of each lower-case one, and the other way round.
UpperOf == [c \in {p[2] : p \in CasePairs} |-> (CHOOSE p \in CasePairs : p[2] = c)[1]]

LowerOf == [c \in {p[1] : p \in CasePairs} |-> (CHOOSE p \in CasePairs : p[1] = c)[2]]

ToUpperCase(text) ==
  [i \in 1..Len(text) |-> IF text[i] \in DOMAIN UpperOf THEN UpperOf[text[i]] ELSE text[i]]

ToLowerCase(text) ==
  [i \in 1..Len(text) |-> IF text[i] \in DOMAIN LowerOf THEN LowerOf[text[i]] ELSE text[i]]

WhiteSpace == {" ", "\n", "\t"}

RECURSIVE TrimStart(_)
TrimStart(text) ==
  IF text # <<>> /\ Head(text) \in WhiteSpace THEN TrimStart(Tail(text)) ELSE text

RECURSIVE TrimEnd(_)
TrimEnd(text) ==
  IF text # <<>> /\ text[Len(text)] \in WhiteSpace THEN TrimEnd(SliceOffLast(text)) ELSE text

\* String.prototype.trim
Trim(text) == TrimEnd(TrimStart(text))

RECURSIVE Concat(_)
Concat(texts) == IF texts = <<>> THEN <<>> ELSE Head(texts) \o Concat(Tail(texts))

\* $(row).text(): the text of the cells of the row, in document order
RowText(row) == Concat([i \in 1..Len(row) |-> row[i].text])

TableText(table) == Concat([i \in 1..Len(table) |-> RowText(table[i])])

\* $('body').text()
PageText(doc) ==
  doc.text \o Concat([i \in 1..Len(doc.tables) |-> TableText(doc.tables[i])])

HasExamTypeLegend(doc) ==
  /\ Includes(PageText(doc), <<"O", "p", "e", "n", " ", "B", "o", "o", "k">>)
  /\ Includes(PageText(doc), <<"R", "e", "s", "t", "r", "i", "c", "t", "e", "d", " ",
                               "O", "p", "e", "n", " ", "B", "o", "o", "k">>)
  /\ (Includes(PageText(doc), <<"*">>) \/ Includes(PageText(doc), <<"+">>))

\* The th and td of the first tr, trimmed and lower-cased.
Headers(table) ==
  IF table = <<>> THEN <<>>
  ELSE [i \in 1..Len(table[1]) |-> ToLowerCase(Trim(table[1][i].text))]

HasRelevantHeaders(headers) ==
  \E i \in 1..Len(headers) :
    \/ Includes(headers[i], <<"c", "o", "u", "r", "s", "e">>)
    \/ Includes(headers[i], <<"d", "a", "t", "e">>)
    \/ Includes(headers[i], <<"t", "i", "m", "e">>)
    \/ Includes(headers[i], <<"v", "e", "n", "u", "e">>)

\* $table.find('tr').slice(1)
DataRows(table) == IF table = <<>> THEN <<>> ELSE Tail(table)

\* $row.find('td').map(...text().trim()).get()
Cells(row) ==
  LET RECURSIVE Td(_)
      Td(r) == IF r = <<>> THEN <<>>
               ELSE IF Head(r).tag = "td" THEN <<Trim(Head(r).text)>> \o Td(Tail(r))
               ELSE Td(Tail(r))
  IN  Td(row)

\* The rows the walk skips: fewer than three cells, or a header said again.
IsSkippedRow(cells) ==
  \/ Len(cells) < 3
  \/ ToUpperCase(cells[1]) \in
       {<<"D", "A", "T", "E">>,
        <<"C", "O", "U", "R", "S", "E", " ", "C", "O", "D", "E">>,
        <<"C", "O", "U", "R", "S", "E">>,
        <<"T", "I", "M", "E">>,
        <<"D", "A", "Y">>,
        <<"V", "E", "N", "U", "E">>}

\* What a row's let-variables hold before any cell is looked at.
Blank ==
  [courseCode |-> <<>>, courseTitle |-> <<>>, examDate |-> <<>>, examTime |-> <<>>,
   examDuration |-> <<>>, venue |-> <<>>, seatNo |-> <<>>, examType |-> Null]

\* One turn of cells.forEach: the cell goes where its column's header says.
MapCell(fields, header, cell) ==
  LET headerLower == ToLowerCase(header) IN
  IF \/ (Includes(headerLower, <<"c", "o", "u", "r", "s", "e">>)
          /\ ~Includes(headerLower, <<"t", "i", "t", "l", "e">>))
     \/ Includes(headerLower, <<"c", "o", "d", "e">>)
     \/ Includes(headerLower, <<"s", "u", "b", "j", "e", "c", "t">>)
  THEN [fields EXCEPT !.courseCode = cell]
  ELSE IF Includes(headerLower, <<"d", "a", "t", "e">>)
  THEN [fields EXCEPT !.examDate = cell]
  ELSE IF Includes(headerLower, <<"t", "i", "m", "e">>)
  THEN [fields EXCEPT !.examTime = cell]
  ELSE IF Includes(headerLower, <<"d", "u", "r", "a", "t", "i", "o", "n">>)
  THEN [fields EXCEPT !.examDuration = cell]
  ELSE IF \/ Includes(headerLower, <<"v", "e", "n", "u", "e">>)
          \/ Includes(headerLower, <<"h", "a", "l", "l">>)
          \/ Includes(headerLower, <<"l", "o", "c", "a", "t", "i", "o", "n">>)
  THEN [fields EXCEPT !.venue = cell]
  ELSE IF Includes(headerLower, <<"s", "e", "a", "t">>)
  THEN [fields EXCEPT !.seatNo = cell]
  ELSE IF \/ Includes(headerLower, <<"t", "y", "p", "e">>)
          \/ Includes(headerLower, <<"m", "o", "d", "e">>)
  THEN [fields EXCEPT !.examType = Some(cell)]
  ELSE fields

\* cells.forEach((cell, idx) => ...), with headers[idx] || ''
MapByHeaders(headers, cells) ==
  LET RECURSIVE Each(_, _)
      Each(idx, fields) ==
        IF idx > Len(cells) THEN fields
        ELSE Each(idx + 1,
                  MapCell(fields, IF idx <= Len(headers) THEN headers[idx] ELSE <<>>,
                          cells[idx]))
  IN  Each(1, Blank)

\* cells[i] || '', i counted from 0 as the code counts
CellOrEmpty(cells, i) == IF i + 1 <= Len(cells) THEN cells[i + 1] ELSE <<>>

\* The columns of the WIS table, taken by position when the row has five cells.
MapByPosition(fields, cells) ==
  IF Len(cells) >= 5
  THEN [fields EXCEPT !.examDate = CellOrEmpty(cells, 0),
                      !.examTime = CellOrEmpty(cells, 2),
                      !.courseCode = CellOrEmpty(cells, 3),
                      !.courseTitle = CellOrEmpty(cells, 4),
                      !.examDuration = CellOrEmpty(cells, 5),
                      !.venue = CellOrEmpty(cells, 6)]
  ELSE fields

SuffixInferenceIgnoringLegend(fields, hasLegend) ==
  IF fields.courseCode = <<>> THEN fields
  ELSE IF EndsWith(fields.courseCode, "*")
  THEN [fields EXCEPT !.examType = Some(<<"R", "e", "s", "t", "r", "i", "c", "t", "e",
                                          "d", " ", "O", "p", "e", "n", " ", "B", "o",
                                          "o", "k">>),
                      !.courseCode = SliceOffLast(fields.courseCode)]
  ELSE IF EndsWith(fields.courseCode, "+") \/ EndsWith(fields.courseCode, "#")
  THEN [fields EXCEPT !.examType = Some(<<"O", "p", "e", "n", " ", "B", "o", "o",
                                          "k">>),
                      !.courseCode = SliceOffLast(fields.courseCode)]
  ELSE [fields EXCEPT !.examType = Some(<<"C", "l", "o", "s", "e", "d", " ", "B", "o",
                                          "o", "k">>)]

SuffixInferenceHashClosed(fields, hasLegend) ==
  IF fields.courseCode = <<>> THEN fields
  ELSE IF hasLegend
  THEN IF EndsWith(fields.courseCode, "*")
       THEN [fields EXCEPT !.examType = Some(<<"R", "e", "s", "t", "r", "i", "c", "t",
                                               "e", "d", " ", "O", "p", "e", "n", " ",
                                               "B", "o", "o", "k">>),
                           !.courseCode = SliceOffLast(fields.courseCode)]
       ELSE IF EndsWith(fields.courseCode, "+")
       THEN [fields EXCEPT !.examType = Some(<<"O", "p", "e", "n", " ", "B", "o", "o",
                                               "k">>),
                           !.courseCode = SliceOffLast(fields.courseCode)]
       ELSE [fields EXCEPT !.examType = Some(<<"C", "l", "o", "s", "e", "d", " ", "B",
                                               "o", "o", "k">>)]
  ELSE IF \/ EndsWith(fields.courseCode, "*") \/ EndsWith(fields.courseCode, "+")
          \/ EndsWith(fields.courseCode, "#")
       THEN [fields EXCEPT !.examType = Null,
                           !.courseCode = SliceOffLast(fields.courseCode)]
       ELSE [fields EXCEPT !.examType = Null]

SuffixInferenceKeepingCell(fields, hasLegend) ==
  IF fields.examType # Null
  THEN IF \/ EndsWith(fields.courseCode, "*") \/ EndsWith(fields.courseCode, "+")
          \/ EndsWith(fields.courseCode, "#")
       THEN [fields EXCEPT !.courseCode = SliceOffLast(fields.courseCode)]
       ELSE fields
  ELSE SuffixInferenceIgnoringLegend(fields, hasLegend)

\* The exam type read off the suffix of the course code, and the code cleaned.
SuffixInference(fields, hasLegend) ==
  IF fields.courseCode = <<>> THEN fields
  ELSE IF hasLegend
  THEN IF EndsWith(fields.courseCode, "*")
       THEN [fields EXCEPT !.examType = Some(<<"R", "e", "s", "t", "r", "i", "c", "t",
                                               "e", "d", " ", "O", "p", "e", "n", " ",
                                               "B", "o", "o", "k">>),
                           !.courseCode = SliceOffLast(fields.courseCode)]
       ELSE IF EndsWith(fields.courseCode, "+") \/ EndsWith(fields.courseCode, "#")
       THEN [fields EXCEPT !.examType = Some(<<"O", "p", "e", "n", " ", "B", "o", "o",
                                               "k">>),
                           !.courseCode = SliceOffLast(fields.courseCode)]
       ELSE [fields EXCEPT !.examType = Some(<<"C", "l", "o", "s", "e", "d", " ", "B",
                                               "o", "o", "k">>)]
  ELSE IF \/ EndsWith(fields.courseCode, "*") \/ EndsWith(fields.courseCode, "+")
          \/ EndsWith(fields.courseCode, "#")
       THEN [fields EXCEPT !.examType = Null,
                           !.courseCode = SliceOffLast(fields.courseCode)]
       ELSE [fields EXCEPT !.examType = Null]

\* The exam type read off the text of the row, when none is set and the legend is there.
Fallback(fields, hasLegend, row) ==
  IF (fields.examType = Null \/ fields.examType = Some(<<>>)) /\ hasLegend
  THEN LET rowText == ToLowerCase(RowText(row)) IN
       IF \/ Includes(rowText, <<"o", "p", "e", "n", " ", "b", "o", "o", "k">>)
          \/ Includes(rowText, <<"o", "p", "e", "n", "b", "o", "o", "k">>)
       THEN [fields EXCEPT !.examType = Some(<<"O", "p", "e", "n", " ", "B", "o", "o",
                                               "k">>)]
       ELSE IF \/ Includes(rowText, <<"r", "e", "s", "t", "r", "i", "c", "t", "e",
                                      "d", " ", "o", "p", "e", "n", " ", "b", "o",
                                      "o", "k">>)
               \/ Includes(rowText, <<"r", "e", "s", "t", "r", "i", "c", "t", "e",
                                      "d">>)
       THEN [fields EXCEPT !.examType = Some(<<"R", "e", "s", "t", "r", "i", "c", "t",
                                               "e", "d", " ", "O", "p", "e", "n", " ",
                                               "B", "o", "o", "k">>)]
       ELSE [fields EXCEPT !.examType = Some(<<"C", "l", "o", "s", "e", "d", " ", "B",
                                               "o", "o", "k">>)]
  ELSE fields

\* The let-variables of a row when the code reaches the push.
RowFields(headers, row, hasLegend) ==
  Fallback(SuffixInference(MapByPosition(MapByHeaders(headers, Cells(row)), Cells(row)),
                           hasLegend),
           hasLegend, row)

ExamRecord(fields, acadsem, studentType) ==
  [course_code |-> ToUpperCase(fields.courseCode), course_title |-> fields.courseTitle,
   acadsem |-> acadsem, exam_date |-> fields.examDate, exam_time |-> fields.examTime,
   exam_duration |-> fields.examDuration, venue |-> fields.venue,
   seat_no |-> fields.seatNo, student_type |-> studentType,
   exam_type |-> fields.examType]

\* What a data row adds to exams: nothing, or one record.
ParseRowFromTwo(headers, row, hasLegend, acadsem, studentType) ==
  IF IsSkippedRow(Cells(row)) THEN <<>>
  ELSE LET fields == RowFields(headers, row, hasLegend) IN
       IF Len(fields.courseCode) >= 2
       THEN <<ExamRecord(fields, acadsem, studentType)>>
       ELSE <<>>

ParseRow(headers, row, hasLegend, acadsem, studentType) ==
  IF IsSkippedRow(Cells(row)) THEN <<>>
  ELSE LET fields == RowFields(headers, row, hasLegend) IN
       IF Len(fields.courseCode) > 2
       THEN <<ExamRecord(fields, acadsem, studentType)>>
       ELSE <<>>

(***************************************************************************)
(* The pages the parser is run on.                                         *)
(***************************************************************************)
Th(text) == [tag |-> "th", text |-> text]
Td(text) == [tag |-> "td", text |-> text]

\* The header row of the WIS table.
WisHeader ==
  <<Th(<<"D", "a", "t", "e">>), Th(<<"D", "a", "y">>), Th(<<"T", "i", "m", "e">>),
    Th(<<"C", "o", "u", "r", "s", "e", " ", "C", "o", "d", "e">>),
    Th(<<"C", "o", "u", "r", "s", "e", " ", "T", "i", "t", "l", "e">>),
    Th(<<"D", "u", "r", "a", "t", "i", "o", "n">>), Th(<<"V", "e", "n", "u", "e">>)>>

\* The header row of a narrow table that has a column for the exam type.
TypedHeader ==
  <<Th(<<"C", "o", "u", "r", "s", "e", " ", "C", "o", "d", "e">>), Th(<<"D", "a", "t",
                                                                        "e">>),
    Th(<<"T", "i", "m", "e">>), Th(<<"T", "y", "p", "e">>)>>

WisRow(code) ==
  <<Td(<<"2", "7", " ", "A", "P", "R">>), Td(<<"M", "O", "N">>), Td(<<"9", " ", "A",
                                                                      "M">>), Td(code),
    Td(<<"N", "E", "T", "W", "O", "R", "K", "S">>), Td(<<"2", " ", "h",
                                                         "r">>), Td(<<"L", "T", "1">>)>>

DataRowInputs ==
  {WisRow(<<"S", "C", "1", "*">>),
   WisRow(<<"S", "C", "1", "+">>),
   WisRow(<<"S", "C", "1", "#">>),
   WisRow(<<"S", "C", "1">>),
   WisRow(<<" ", "s", "c", "2", "*", " ">>),
   WisRow(<<"S", "C", "*">>),
   <<Td(<<"S", "C", "3", "+">>), Td(<<"2", "8", " ", "A", "P", "R">>), Td(<<"1", " ",
                                                                            "P", "M">>),
     Td(<<"O", "p", "e", "n", " ", "B", "o", "o", "k">>)>>,
   <<Td(<<"S", "C", "5", "#">>), Td(<<"2", "9", " ", "A", "P", "R">>),
     Td(<<"2", " ", "P", "M">>), Td(<<"M", "C", "Q">>)>>,
   <<Td(<<"D", "a", "t", "e">>), Td(<<"D", "a", "y">>), Td(<<"T", "i", "m", "e">>),
     Td(<<"C", "o", "u", "r", "s", "e", " ", "C", "o", "d", "e">>),
     Td(<<"C", "o", "u", "r", "s", "e", " ", "T", "i", "t", "l", "e">>),
     Td(<<"D", "u", "r", "a", "t", "i", "o", "n">>), Td(<<"V", "e", "n", "u", "e">>)>>,
   <<Td(<<"S", "C", "4", "*">>), Td(<<>>)>>}

\* A table whose second column is headed as a seat number.
SeatHeader ==
  <<Th(<<"D", "a", "t", "e">>), Th(<<"S", "e", "a", "t", " ", "N", "o">>),
    Th(<<"T", "i", "m", "e">>),
    Th(<<"C", "o", "u", "r", "s", "e", " ", "C", "o", "d", "e">>),
    Th(<<"C", "o", "u", "r", "s", "e", " ", "T", "i", "t", "l", "e">>),
    Th(<<"D", "u", "r", "a", "t", "i", "o", "n">>), Th(<<"V", "e", "n", "u", "e">>)>>

ExamTables ==
  {<<header>> \o rows : header \in {WisHeader, TypedHeader},
                        rows \in SeqsUpTo(DataRowInputs, MaxRows)}
    \cup {<<SeatHeader, WisRow(code)>> : code \in {<<"S", "C", "1">>, <<"S", "C", "1", "*">>}}

\* The legend as the WIS page prints it.
LegendText ==
  <<"*", " ", "R", "e", "s", "t", "r", "i", "c", "t", "e", "d", " ", "O", "p", "e",
    "n", " ", "B", "o", "o", "k", ",", " ", "#", " ", "O", "p", "e", "n", " ", "B",
    "o", "o", "k", ",", " ", "+", " ", "O", "p", "e", "n", " ", "B", "o", "o", "k">>

\* A layout table that holds the legend: no header of it names a column of exams.
LegendTable == <<<<Td(<<"*", " ", "R", "e", "s", "t", "r", "i", "c", "t", "e", "d",
                        " ", "O", "p", "e", "n", " ", "B", "o", "o", "k">>)>>,
                 <<Td(<<"+", " ", "O", "p", "e", "n", " ", "B", "o", "o", "k">>)>>>>

\* The page without legend, with the legend in its text, with the legend in a table.
PageFrames ==
  {[text |-> <<>>, tables |-> <<>>],
   [text |-> LegendText, tables |-> <<>>],
   [text |-> <<>>, tables |-> <<LegendTable>>]}

Pages ==
  {[text |-> frame.text, tables |-> frame.tables \o <<table>>] :
     frame \in PageFrames, table \in ExamTables}

Acadsem == "2025_1"

(***************************************************************************)
(* The walk of parseExamDetails over a page.                               *)
(***************************************************************************)
InitExamParser ==
  /\ InitDb
  /\ ExamScraperIdle
  /\ ScheduleWritersIdle
  /\ ConnectionIdle
  /\ MetadataIdle
  /\ ExamMetadataIdle
  /\ OptionsIdle
  /\ ScheduleParserIdle
  /\ ContentParserIdle
  /\ VacancyIdle
  /\ ParseNumberIdle
  /\ page \in Pages
  /\ argStudentType \in StudentTypes
  /\ hasExamTypeLegend = HasExamTypeLegend(page)
  /\ pc = "tables"
  /\ tableNo = 0
  /\ rowNo = 0
  /\ parsed = <<>>
  /\ origin = <<>>

\* $('table').each: the next table, walked when its headers are relevant.
EachTable ==
  /\ pc = "tables"
  /\ tableNo < Len(page.tables)
  /\ tableNo' = tableNo + 1
  /\ rowNo' = 0
  /\ pc' = IF HasRelevantHeaders(Headers(page.tables[tableNo + 1]))
           THEN "rows" ELSE "tables"
  /\ UNCHANGED <<page, argStudentType, hasExamTypeLegend, parsed, origin>>
  /\ UNCHANGED idleInExamParser

\* $table.find('tr').slice(1).each: the next data row.
EachRow ==
  /\ pc = "rows"
  /\ rowNo < Len(DataRows(page.tables[tableNo]))
  /\ rowNo' = rowNo + 1
  /\ LET table == page.tables[tableNo]
         pushed == ParseRow(Headers(table), DataRows(table)[rowNo + 1],
                            hasExamTypeLegend, Acadsem, argStudentType)
     IN  /\ parsed' = parsed \o pushed
         /\ origin' = IF pushed = <<>> THEN origin
                      ELSE Append(origin, <<tableNo, rowNo + 1>>)
  /\ UNCHANGED <<page, argStudentType, hasExamTypeLegend, pc, tableNo>>
  /\ UNCHANGED idleInExamParser

\* The rows of the table are done.
EndOfRows ==
  /\ pc = "rows"
  /\ rowNo = Len(DataRows(page.tables[tableNo]))
  /\ pc' = "tables"
  /\ UNCHANGED <<page, argStudentType, hasExamTypeLegend, tableNo, rowNo, parsed, origin>>
  /\ UNCHANGED idleInExamParser

\* return exams
ReturnExams ==
  /\ pc = "tables"
  /\ tableNo = Len(page.tables)
  /\ pc' = "done"
  /\ UNCHANGED <<page, argStudentType, hasExamTypeLegend, tableNo, rowNo, parsed, origin>>
  /\ UNCHANGED idleInExamParser

NextExamParser == EachTable \/ EachRow \/ EndOfRows \/ ReturnExams

SpecExamParser == InitExamParser /\ [][NextExamParser]_vars

(***************************************************************************)
(* The schedule parser, parseSchedule(html, acadsem) of utils/format.js.   *)
(* The document is the sequence of its tables.                             *)
(***************************************************************************)
\* Most data rows of a session table of the page.
MaxSchedRows == 3

\* text.replace(/\s+/g, ' ')
RECURSIVE CollapseSpace(_)
CollapseSpace(text) ==
  IF text = <<>> THEN <<>>
  ELSE IF Head(text) \in WhiteSpace THEN <<" ">> \o CollapseSpace(TrimStart(Tail(text)))
  ELSE <<Head(text)>> \o CollapseSpace(Tail(text))

\* clean = (text) => text.replace(/\s+/g, ' ').trim()
Clean(text) == Trim(CollapseSpace(text))

\* $(row).find('td'): the td cells of a row, in order
TdCells(row) == SelectSeq(row, LAMBDA cell : cell.tag = "td")

\* clean(cells.eq(i).text()), i counted from 0; the text of no cell is ''
CleanCell(cells, i) == IF i + 1 <= Len(cells) THEN Clean(cells[i + 1].text) ELSE <<>>

\* The th of the whole table, cleaned and upper-cased.
ScheduleHeaders(table) ==
  UNION {{ToUpperCase(Clean(table[r][c].text)) :
            c \in {k \in 1..Len(table[r]) : table[r][k].tag = "th"}} :
         r \in 1..Len(table)}

IsScheduleTable(table) ==
  /\ <<"I", "N", "D", "E", "X">> \in ScheduleHeaders(table)
  /\ <<"T", "Y", "P", "E">> \in ScheduleHeaders(table)

ParseScheduleRowsWithoutInheriting(table) ==
  LET RECURSIVE Each(_)
      Each(rowElements) ==
        IF rowElements = <<>> THEN <<>>
        ELSE LET cells == TdCells(Head(rowElements)) IN
             IF Len(cells) = 0 THEN Each(Tail(rowElements))
             ELSE <<[index |-> CleanCell(cells, 0),
                     type |-> CleanCell(cells, 1), group |-> CleanCell(cells, 2),
                     day |-> CleanCell(cells, 3), time |-> CleanCell(cells, 4),
                     venue |-> CleanCell(cells, 5), remark |-> CleanCell(cells, 6)]>>
                  \o Each(Tail(rowElements))
  IN  Each(DataRows(table))

\* parseScheduleRows: currentIndex is null when the walk starts; a row without
\* td is passed over; a row with a blank first cell takes the index of the
\* row before it.
ParseScheduleRows(table) ==
  LET RECURSIVE Each(_, _)
      Each(rowElements, currentIndex) ==
        IF rowElements = <<>> THEN <<>>
        ELSE LET cells == TdCells(Head(rowElements))
                 idxText == CleanCell(cells, 0)
                 index == IF idxText # <<>> THEN Some(idxText) ELSE currentIndex
             IN  IF Len(cells) = 0 THEN Each(Tail(rowElements), currentIndex)
                 ELSE <<[index |-> IF index = Null THEN <<>> ELSE index[1],
                         type |-> CleanCell(cells, 1), group |-> CleanCell(cells, 2),
                         day |-> CleanCell(cells, 3), time |-> CleanCell(cells, 4),
                         venue |-> CleanCell(cells, 5), remark |-> CleanCell(cells, 6)]>>
                      \o Each(Tail(rowElements), index)
  IN  Each(DataRows(table), Null)

\* sections.filter(s => s.index)
FilterSections(sections) == SelectSeq(sections, LAMBDA s : s.index # <<>>)

Digits == {"0", "1", "2", "3", "4", "5", "6", "7", "8", "9"}

\* /^[A-Za-z0-9]+$/.test(code)
IsAlphanumeric(code) ==
  /\ code # <<>>
  /\ \A i \in 1..Len(code) :
       code[i] \in Digits \cup DOMAIN UpperOf \cup DOMAIN LowerOf

\* The td of the first tr of a table.
FirstRowCells(table) == IF table = <<>> THEN <<>> ELSE TdCells(table[1])

\* A table whose first row names a course: code and title, the code alphanumeric.
IsCourseHeaderTable(table) ==
  /\ Len(FirstRowCells(table)) >= 2
  /\ CleanCell(FirstRowCells(table), 0) # <<>>
  /\ CleanCell(FirstRowCells(table), 1) # <<>>
  /\ IsAlphanumeric(CleanCell(FirstRowCells(table), 0))

(***************************************************************************)
(* The pages parseSchedule is run on.                                      *)
(***************************************************************************)
CourseHeaderTable(code, title) == <<<<Td(code), Td(title), Td(<<"3", ".", "0", " ",
                                                                "A", "U">>)>>>>

SessionHeaderRow ==
  <<Th(<<"I", "n", "d", "e", "x">>), Th(<<"T", "y", "p", "e">>), Th(<<"G", "r", "o",
                                                                      "u", "p">>),
    Th(<<"D", "a", "y">>), Th(<<"T", "i", "m", "e">>), Th(<<"V", "e", "n", "u", "e">>),
    Th(<<"R", "e", "m", "a", "r", "k">>)>>

SessionRow(index, type, day) ==
  <<Td(index), Td(type), Td(<<"G", "1">>), Td(day), Td(<<"0", "8", "3", "0", "-", "0",
                                                         "9", "2", "0">>),
    Td(<<"L", "T", "1">>), Td(<<>>)>>

SessionRowInputs ==
  {SessionRow(<<"1", "0", "2", "8", "4">>, <<"L", "E", "C">>, <<"M", "O", "N">>),
   SessionRow(<<" ", "1", "0", "2", "8", "5", " ">>, <<"L", "A", "B">>, <<"W", "E",
                                                                          "D">>),
   SessionRow(<<>>, <<"T", "U", "T">>, <<"T", "U", "E">>),
   SessionRow(<<" ">>, <<"S", "E", "M">>, <<"F", "R", "I">>),
   <<Th(<<"1", "0", "2", "8", "6">>), Th(<<"T", "e", "a", "c", "h", "i", "n", "g",
                                           " ", "W", "e", "e", "k", "s">>)>>}

SessionTables ==
  {<<SessionHeaderRow>> \o rows : rows \in SeqsUpTo(SessionRowInputs, MaxSchedRows)}

\* A second course whose session table opens with a row that has no index.
SecondCourseTables ==
  <<CourseHeaderTable(<<"S", "C", "2">>, <<"A", "L", "G", "O", "R", "I", "T", "H",
                                           "M", "S">>),
    <<SessionHeaderRow, SessionRow(<<>>, <<"T", "U", "T">>, <<"T", "H", "U">>),
      SessionRow(<<"2", "0", "0", "0", "1">>, <<"L", "E", "C">>, <<"M", "O", "N">>)>>>>

SchedulePages ==
  UNION {{<<CourseHeaderTable(<<"S", "C", "1">>, <<"N", "E", "T", "W", "O", "R", "K",
                                                   "S">>), table>>,
          <<CourseHeaderTable(<<"S", "C", "1">>, <<"N", "E", "T", "W", "O", "R", "K",
                                                   "S">>), table>>
            \o SecondCourseTables,
          <<table>> \o SecondCourseTables,
          <<CourseHeaderTable(<<"S", "C", "-", "1">>, <<"N", "E", "T", "W", "O", "R",
                                                        "K", "S">>), table>>,
          <<CourseHeaderTable(<<"S", "C", "1">>, <<"N", "E", "T", "W", "O", "R", "K",
                                                   "S">>),
            CourseHeaderTable(<<"S", "C", "3">>, <<"D", "A", "T", "A">>), table>>,
          <<CourseHeaderTable(<<"S", "C", "1">>, <<"N", "E", "T", "W", "O", "R", "K",
                                                   "S">>), table,
            SecondCourseTables[2]>>} :
         table \in SessionTables}

(***************************************************************************)
(* The walk of parseSchedule over the tables of a page.                    *)
(***************************************************************************)
InitScheduleParser ==
  /\ InitDb
  /\ ExamScraperIdle
  /\ ScheduleWritersIdle
  /\ ConnectionIdle
  /\ MetadataIdle
  /\ ExamMetadataIdle
  /\ OptionsIdle
  /\ ParserIdle
  /\ ContentParserIdle
  /\ VacancyIdle
  /\ ParseNumberIdle
  /\ schedHtml \in SchedulePages
  /\ schedTableNo = 0
  /\ schedCurrentCourse = Null
  /\ schedCourses = <<>>
  /\ schedOrigin = <<>>

\* A header table that would not take the place of a course still open.
OpenCourseUnlessPending(currentCourse, table) ==
  IF currentCourse # Null THEN currentCourse
  ELSE IF IsCourseHeaderTable(table)
  THEN Some([course_code |-> CleanCell(FirstRowCells(table), 0), acadsem |-> Acadsem,
             sections |-> <<>>])
  ELSE currentCourse

\* currentCourse after a table that is no session table: the course its first
\* row names, or what it was.
OpenCourse(currentCourse, table) ==
  IF IsCourseHeaderTable(table)
  THEN Some([course_code |-> CleanCell(FirstRowCells(table), 0), acadsem |-> Acadsem,
             sections |-> <<>>])
  ELSE currentCourse

\* A course that would stay open after its sections are pushed.
AfterPushStillOpen(currentCourse) == currentCourse

\* currentCourse = null, after courses.push(currentCourse)
AfterPush(currentCourse) == Null

\* A session table met while a course is open: its sections close the course.
EachScheduleTable ==
  /\ schedTableNo < Len(schedHtml)
  /\ IsScheduleTable(schedHtml[schedTableNo + 1])
  /\ schedCurrentCourse # Null
  /\ schedTableNo' = schedTableNo + 1
  /\ schedCourses' =
       Append(schedCourses,
              [schedCurrentCourse[1] EXCEPT
                 !.sections = FilterSections(ParseScheduleRows(schedHtml[schedTableNo + 1]))])
  /\ schedOrigin' = Append(schedOrigin, schedTableNo + 1)
  /\ schedCurrentCourse' = AfterPush(schedCurrentCourse)
  /\ UNCHANGED schedHtml
  /\ UNCHANGED idleInScheduleParser

\* A session table met while no course is open is passed over.
EachOrphanScheduleTable ==
  /\ schedTableNo < Len(schedHtml)
  /\ IsScheduleTable(schedHtml[schedTableNo + 1])
  /\ schedCurrentCourse = Null
  /\ schedTableNo' = schedTableNo + 1
  /\ UNCHANGED <<schedHtml, schedCurrentCourse, schedCourses, schedOrigin>>
  /\ UNCHANGED idleInScheduleParser

\* Any other table: it opens a course when its first row names one.
EachOtherTable ==
  /\ schedTableNo < Len(schedHtml)
  /\ ~IsScheduleTable(schedHtml[schedTableNo + 1])
  /\ schedTableNo' = schedTableNo + 1
  /\ schedCurrentCourse' = OpenCourse(schedCurrentCourse, schedHtml[schedTableNo + 1])
  /\ UNCHANGED <<schedHtml, schedCourses, schedOrigin>>
  /\ UNCHANGED idleInScheduleParser

NextScheduleParser == EachScheduleTable \/ EachOrphanScheduleTable \/ EachOtherTable

SpecScheduleParser == InitScheduleParser /\ [][NextScheduleParser]_vars

(***************************************************************************)
(* The content parser, parseContent(html, acadsem), and its                *)
(* parseCourseTable.  A cell carries, besides tag and text, the value of   *)
(* its colspan attribute ('' when it has none).                            *)
(***************************************************************************)
\* A regular expression is the sequence of its items: one character of a set,
\* an optional one, any number of them, or the end of the text.  All the
\* expressions of the parser carry the flag i: letters are given in lower
\* case and the text is compared lower-cased.
One(set) == [kind |-> "one", set |-> set]

Opt(set) == [kind |-> "opt", set |-> set]

Star(set) == [kind |-> "star", set |-> set]

AtEnd == [kind |-> "end", set |-> {}]

Lit(text) == [i \in 1..Len(text) |-> One({text[i]})]

\* \s+
Spaces == <<One(WhiteSpace), Star(WhiteSpace)>>

\* regex.test(text), the expression anchored at the start of the text
RegexTest(regex, text) ==
  LET lower == ToLowerCase(text)
      RECURSIVE Match(_, _)
      Match(i, j) ==
        IF j > Len(regex) THEN TRUE
        ELSE IF regex[j].kind = "end" THEN i = Len(lower) + 1 /\ Match(i, j + 1)
        ELSE IF regex[j].kind = "one"
        THEN i <= Len(lower) /\ lower[i] \in regex[j].set /\ Match(i + 1, j + 1)
        ELSE IF regex[j].kind = "opt"
        THEN \/ i <= Len(lower) /\ lower[i] \in regex[j].set /\ Match(i + 1, j + 1)
             \/ Match(i, j + 1)
        ELSE \/ i <= Len(lower) /\ lower[i] \in regex[j].set /\ Match(i + 1, j)
             \/ Match(i, j + 1)
  IN  Match(1, 1)

\* /^\s*pre[-\s]?requisite[s]?:?/i
IsPrereqLabel(label) ==
  RegexTest(<<Star(WhiteSpace)>> \o Lit(<<"p", "r", "e">>)
              \o <<Opt({"-"} \cup WhiteSpace)>>
              \o Lit(<<"r", "e", "q", "u", "i", "s", "i", "t", "e">>)
              \o <<Opt({"s"}), Opt({":"})>>, label)

\* /^\s*mutually?\s*exclusive[s]?:?/i
IsMutualLabel(label) ==
  RegexTest(<<Star(WhiteSpace)>> \o Lit(<<"m", "u", "t", "u", "a", "l", "l">>)
              \o <<Opt({"y"}), Star(WhiteSpace)>>
              \o Lit(<<"e", "x", "c", "l", "u", "s", "i", "v", "e">>)
              \o <<Opt({"s"}), Opt({":"})>>, label)

\* /^\s*not\s+available\s+to\s+programme/i
IsNotAvailableProgLabel(label) ==
  RegexTest(<<Star(WhiteSpace)>> \o Lit(<<"n", "o", "t">>) \o Spaces
              \o Lit(<<"a", "v", "a", "i", "l", "a", "b", "l", "e">>) \o Spaces
              \o Lit(<<"t", "o">>) \o Spaces
              \o Lit(<<"p", "r", "o", "g", "r", "a", "m", "m", "e">>), label)

\* /^\s*not\s+available\s+to\s+all\s+programme\s+with/i
IsNotAvailableAllLabel(label) ==
  RegexTest(<<Star(WhiteSpace)>> \o Lit(<<"n", "o", "t">>) \o Spaces
              \o Lit(<<"a", "v", "a", "i", "l", "a", "b", "l", "e">>) \o Spaces
              \o Lit(<<"t", "o">>) \o Spaces \o Lit(<<"a", "l", "l">>) \o Spaces
              \o Lit(<<"p", "r", "o", "g", "r", "a", "m", "m", "e">>) \o Spaces
              \o Lit(<<"w", "i", "t", "h">>), label)

\* /^\s*not\s+available\s+as\s+BDE\/UE\s+to\s+programme/i
IsNotAvailableBDEUELabel(label) ==
  RegexTest(<<Star(WhiteSpace)>> \o Lit(<<"n", "o", "t">>) \o Spaces
              \o Lit(<<"a", "v", "a", "i", "l", "a", "b", "l", "e">>) \o Spaces
              \o Lit(<<"a", "s">>) \o Spaces
              \o Lit(<<"b", "d", "e", "/", "u", "e">>) \o Spaces
              \o Lit(<<"t", "o">>) \o Spaces
              \o Lit(<<"p", "r", "o", "g", "r", "a", "m", "m", "e">>), label)

\* /^\s*grade\s+type/i
IsGradeTypeLabel(label) ==
  RegexTest(<<Star(WhiteSpace)>> \o Lit(<<"g", "r", "a", "d", "e">>) \o Spaces
              \o Lit(<<"t", "y", "p", "e">>), label)

\* /^\s*not\s+offered\s+as\s+unrestricted\s+elective/i
IsUnrestrictedLabel(label) ==
  RegexTest(<<Star(WhiteSpace)>> \o Lit(<<"n", "o", "t">>) \o Spaces
              \o Lit(<<"o", "f", "f", "e", "r", "e", "d">>) \o Spaces
              \o Lit(<<"a", "s">>) \o Spaces
              \o Lit(<<"u", "n", "r", "e", "s", "t", "r", "i", "c", "t", "e",
                       "d">>) \o Spaces
              \o Lit(<<"e", "l", "e", "c", "t", "i", "v", "e">>), label)

\* /^\s*not\s+offered\s+as\s+broadening\s+and\s+deepening\s+elective/i
IsBroadeningDeepeningLabel(label) ==
  RegexTest(<<Star(WhiteSpace)>> \o Lit(<<"n", "o", "t">>) \o Spaces
              \o Lit(<<"o", "f", "f", "e", "r", "e", "d">>) \o Spaces
              \o Lit(<<"a", "s">>) \o Spaces
              \o Lit(<<"b", "r", "o", "a", "d", "e", "n", "i", "n", "g">>) \o Spaces
              \o Lit(<<"a", "n", "d">>) \o Spaces
              \o Lit(<<"d", "e", "e", "p", "e", "n", "i", "n", "g">>) \o Spaces
              \o Lit(<<"e", "l", "e", "c", "t", "i", "v", "e">>), label)

\* /^\s*description[:\s]*$/i
IsDescriptionLabel(label) ==
  RegexTest(<<Star(WhiteSpace)>> \o Lit(<<"d", "e", "s", "c", "r", "i", "p", "t", "i",
                                          "o", "n">>)
              \o <<Star({":"} \cup WhiteSpace), AtEnd>>, label)

\* text.replace(pattern, ''), pattern a string: its first occurrence goes
RemoveFirst(text, pattern) ==
  IF Includes(text, pattern)
  THEN LET at == CHOOSE i \in 0..(Len(text) - Len(pattern)) :
                   /\ SubSeq(text, i + 1, i + Len(pattern)) = pattern
                   /\ \A k \in 0..(i - 1) : SubSeq(text, k + 1, k + Len(pattern)) # pattern
       IN  SubSeq(text, 1, at) \o SubSeq(text, at + Len(pattern) + 1, Len(text))
  ELSE text

DigitValue ==
  [c \in Digits |->
     CHOOSE n \in 0..9 : <<"0", "1", "2", "3", "4", "5", "6", "7", "8",
                           "9">>[n + 1] = c]

\* The longest run of digits a text starts with.
RECURSIVE LeadingDigits(_)
LeadingDigits(text) ==
  IF text # <<>> /\ Head(text) \in Digits THEN <<Head(text)>> \o LeadingDigits(Tail(text))
  ELSE <<>>

RECURSIVE DigitsToNat(_)
DigitsToNat(digits) ==
  IF digits = <<>> THEN 0
  ELSE DigitsToNat(SliceOffLast(digits)) * 10 + DigitValue[digits[Len(digits)]]

RECURSIVE DropTrailingZeros(_)
DropTrailingZeros(digits) ==
  IF digits # <<>> /\ digits[Len(digits)] = "0" THEN DropTrailingZeros(SliceOffLast(digits))
  ELSE digits

NaN == [nan |-> TRUE]

\* A number: num / 10^scale, with no trailing zero counted in scale.
Number(negative, intDigits, fracDigits) ==
  [num |-> (IF negative THEN -1 ELSE 1)
             * DigitsToNat(intDigits \o DropTrailingZeros(fracDigits)),
   scale |-> Len(DropTrailingZeros(fracDigits))]

\* parseFloat, of a text without exponent and without 'Infinity': leading
\* white space, a sign, digits, a point and digits; NaN when no digit is found.
ParseFloat(text) ==
  LET trimmed == TrimStart(text)
      signed == trimmed # <<>> /\ trimmed[1] \in {"+", "-"}
      unsigned == IF signed THEN Tail(trimmed) ELSE trimmed
      intDigits == LeadingDigits(unsigned)
      rest == SubSeq(unsigned, Len(intDigits) + 1, Len(unsigned))
      fracDigits == IF rest # <<>> /\ rest[1] = "." THEN LeadingDigits(Tail(rest)) ELSE <<>>
  IN  IF intDigits = <<>> /\ fracDigits = <<>> THEN NaN
      ELSE Number(signed /\ trimmed[1] = "-", intDigits, fracDigits)

AuOrNullWhenFalsy(parsedAU) ==
  IF parsedAU = NaN \/ parsedAU.num = 0 THEN Null ELSE Some(parsedAU)

\* isNaN(parsedAU) ? null : parsedAU
AuOrNull(parsedAU) == IF parsedAU = NaN THEN Null ELSE Some(parsedAU)

\* The au of a new-course row, from the cleaned text of its third cell.
ParseAu(auText) == AuOrNull(ParseFloat(Trim(RemoveFirst(auText, <<"A", "U">>))))

\* Is the text one of the labels that keep a row from opening a course?
IsAnyLabel(firstText) ==
  \/ IsPrereqLabel(firstText) \/ IsMutualLabel(firstText)
  \/ IsNotAvailableProgLabel(firstText) \/ IsNotAvailableAllLabel(firstText)
  \/ IsNotAvailableBDEUELabel(firstText) \/ IsGradeTypeLabel(firstText)
  \/ IsUnrestrictedLabel(firstText) \/ IsBroadeningDeepeningLabel(firstText)
  \/ IsDescriptionLabel(firstText)

IsCourseCodeHeaderRow(cells) ==
  Len(cells) >= 3 /\ ToUpperCase(CleanCell(cells, 0)) = <<"C", "O", "U", "R", "S",
                                                          "E", " ", "C", "O", "D", "E">>

IsNewCourseRow(cells) ==
  Len(cells) >= 3 /\ CleanCell(cells, 0) # <<>> /\ ~IsAnyLabel(CleanCell(cells, 0))

\* The course a new-course row opens.
NewCourse(cells, acadsem) ==
  [course_code |-> CleanCell(cells, 0), acadsem |-> acadsem,
   title |-> CleanCell(cells, 1), au |-> ParseAu(CleanCell(cells, 2)),
   department_code |-> CleanCell(cells, 3), description |-> <<>>,
   prerequisites |-> <<>>, mutual_exclusions |-> <<>>,
   not_available_to_programme |-> <<>>,
   not_available_to_all_programme_with |-> <<>>,
   not_available_as_bde_ue_to_programme |-> <<>>,
   is_unrestricted_elective |-> TRUE, is_broadening_deepening_elective |-> TRUE,
   grade_type |-> <<>>]

\* valueCol2 ? `${valueCol1} ${valueCol2}`.trim() : valueCol1
MergedValue(cells) ==
  IF CleanCell(cells, 2) # <<>>
  THEN Trim(CleanCell(cells, 1) \o <<" ">> \o CleanCell(cells, 2))
  ELSE CleanCell(cells, 1)

\* field += ` ${mergedValue}`
Continued(field, mergedValue) == field \o <<" ">> \o mergedValue

\* A row without label goes on with the field of the last label.
Continuation(walk, mergedValue) ==
  LET c == walk.course IN
  IF walk.lastLabel = "prerequisite"
  THEN [walk EXCEPT !.courses[c].prerequisites = Continued(@, mergedValue)]
  ELSE IF walk.lastLabel = "mutual"
  THEN [walk EXCEPT !.courses[c].mutual_exclusions = Continued(@, mergedValue)]
  ELSE IF walk.lastLabel = "na_prog"
  THEN [walk EXCEPT !.courses[c].not_available_to_programme = Continued(@, mergedValue)]
  ELSE IF walk.lastLabel = "na_all"
  THEN [walk EXCEPT !.courses[c].not_available_to_all_programme_with =
                      Continued(@, mergedValue)]
  ELSE IF walk.lastLabel = "na_bde_ue"
  THEN [walk EXCEPT !.courses[c].not_available_as_bde_ue_to_programme =
                      Continued(@, mergedValue)]
  ELSE IF walk.lastLabel = "grade"
  THEN [walk EXCEPT !.courses[c].grade_type = Continued(@, mergedValue)]
  ELSE IF walk.lastLabel = "description"
  THEN [walk EXCEPT !.courses[c].description =
                      IF @ # <<>> THEN @ \o <<" ">> \o mergedValue ELSE mergedValue]
  ELSE walk

\* cells.filter(cell => cell.attribs.colspan), and the text of those cells
ColspanCells(cells) == SelectSeq(cells, LAMBDA cell : cell.colspan # <<>>)

\* A row that spans columns and is no label is taken for description.
ColspanRow(walk, cells) ==
  LET text == Clean(RowText(ColspanCells(cells))) IN
  IF /\ ColspanCells(cells) # <<>>
     /\ text # <<>>
     /\ ~IsUnrestrictedLabel(text) /\ ~IsBroadeningDeepeningLabel(text)
     /\ ~IsPrereqLabel(text) /\ ~IsMutualLabel(text)
  THEN [walk EXCEPT !.courses[walk.course].description =
                      IF @ # <<>> THEN Trim(@ \o <<" ">> \o text) ELSE text]
  ELSE walk

\* A labelled row whose colspan cells would go on to the description as well.
LabelledRowIntoDescription(walk, row, cells) ==
  LET c == walk.course
      label == CleanCell(cells, 0)
  IN  ColspanRow(
      IF IsPrereqLabel(label)
      THEN [walk EXCEPT !.courses[c].prerequisites = MergedValue(cells),
                        !.lastLabel = "prerequisite"]
      ELSE IF IsMutualLabel(label)
      THEN [walk EXCEPT !.courses[c].mutual_exclusions = MergedValue(cells),
                        !.lastLabel = "mutual"]
      ELSE IF IsNotAvailableProgLabel(label)
      THEN [walk EXCEPT !.courses[c].not_available_to_programme = MergedValue(cells),
                        !.lastLabel = "na_prog"]
      ELSE IF IsNotAvailableAllLabel(label)
      THEN [walk EXCEPT !.courses[c].not_available_to_all_programme_with =
                          MergedValue(cells),
                        !.lastLabel = "na_all"]
      ELSE IF IsNotAvailableBDEUELabel(label)
      THEN [walk EXCEPT !.courses[c].not_available_as_bde_ue_to_programme =
                          MergedValue(cells),
                        !.lastLabel = "na_bde_ue"]
      ELSE [walk EXCEPT !.courses[c].grade_type = MergedValue(cells),
                        !.lastLabel = "grade"],
      cells)

\* A detail row whose first cell is one of the six field labels: the field
\* takes the merged value.
LabelledRow(walk, row, cells) ==
  LET c == walk.course
      label == CleanCell(cells, 0)
  IN  IF IsPrereqLabel(label)
      THEN [walk EXCEPT !.courses[c].prerequisites = MergedValue(cells),
                        !.lastLabel = "prerequisite"]
      ELSE IF IsMutualLabel(label)
      THEN [walk EXCEPT !.courses[c].mutual_exclusions = MergedValue(cells),
                        !.lastLabel = "mutual"]
      ELSE IF IsNotAvailableProgLabel(label)
      THEN [walk EXCEPT !.courses[c].not_available_to_programme = MergedValue(cells),
                        !.lastLabel = "na_prog"]
      ELSE IF IsNotAvailableAllLabel(label)
      THEN [walk EXCEPT !.courses[c].not_available_to_all_programme_with =
                          MergedValue(cells),
                        !.lastLabel = "na_all"]
      ELSE IF IsNotAvailableBDEUELabel(label)
      THEN [walk EXCEPT !.courses[c].not_available_as_bde_ue_to_programme =
                          MergedValue(cells),
                        !.lastLabel = "na_bde_ue"]
      ELSE [walk EXCEPT !.courses[c].grade_type = MergedValue(cells),
                        !.lastLabel = "grade"]

IsLabelledRow(cells) ==
  \/ IsPrereqLabel(CleanCell(cells, 0)) \/ IsMutualLabel(CleanCell(cells, 0))
  \/ IsNotAvailableProgLabel(CleanCell(cells, 0))
  \/ IsNotAvailableAllLabel(CleanCell(cells, 0))
  \/ IsNotAvailableBDEUELabel(CleanCell(cells, 0))
  \/ IsGradeTypeLabel(CleanCell(cells, 0))

\* A walk whose banner rows clear the flag of the first record of the output.
DetailRowOnFirst(walk, row, cells) ==
  IF IsUnrestrictedLabel(Clean(RowText(row)))
  THEN [walk EXCEPT !.courses[1].is_unrestricted_elective = FALSE]
  ELSE IF IsBroadeningDeepeningLabel(Clean(RowText(row)))
  THEN [walk EXCEPT !.courses[1].is_broadening_deepening_elective = FALSE]
  ELSE IF IsLabelledRow(cells) THEN LabelledRow(walk, row, cells)
  ELSE IF IsDescriptionLabel(CleanCell(cells, 0))
  THEN [walk EXCEPT !.courses[walk.course].description = MergedValue(cells),
                    !.lastLabel = "description"]
  ELSE IF CleanCell(cells, 0) = <<>> /\ MergedValue(cells) # <<>>
  THEN Continuation(walk, MergedValue(cells))
  ELSE ColspanRow(walk, cells)

\* A row with cells below an open course.
DetailRow(walk, row, cells) ==
  IF IsUnrestrictedLabel(Clean(RowText(row)))
  THEN [walk EXCEPT !.courses[walk.course].is_unrestricted_elective = FALSE]
  ELSE IF IsBroadeningDeepeningLabel(Clean(RowText(row)))
  THEN [walk EXCEPT !.courses[walk.course].is_broadening_deepening_elective = FALSE]
  ELSE IF IsLabelledRow(cells) THEN LabelledRow(walk, row, cells)
  ELSE IF IsDescriptionLabel(CleanCell(cells, 0))
  THEN [walk EXCEPT !.courses[walk.course].description = MergedValue(cells),
                    !.lastLabel = "description"]
  ELSE IF CleanCell(cells, 0) = <<>> /\ MergedValue(cells) # <<>>
  THEN Continuation(walk, MergedValue(cells))
  ELSE ColspanRow(walk, cells)

\* A walk whose new-course row leaves the last label as it was.
CourseTableRowKeepingLabel(walk, row, acadsem) ==
  LET cells == TdCells(row) IN
  IF Len(cells) = 0 THEN walk
  ELSE IF IsCourseCodeHeaderRow(cells)
  THEN [walk EXCEPT !.course = 0, !.lastLabel = ""]
  ELSE IF IsNewCourseRow(cells)
  THEN IF CleanCell(cells, 0) # <<>> /\ CleanCell(cells, 1) # <<>>
       THEN [courses |-> Append(walk.courses, NewCourse(cells, acadsem)),
             course |-> Len(walk.courses) + 1, lastLabel |-> walk.lastLabel]
       ELSE walk
  ELSE IF walk.course = 0 THEN walk
  ELSE DetailRow(walk, row, cells)

\* A walk whose header row leaves the open course open.
CourseTableRowKeepingCourse(walk, row, acadsem) ==
  LET cells == TdCells(row) IN
  IF Len(cells) = 0 THEN walk
  ELSE IF IsCourseCodeHeaderRow(cells)
  THEN [walk EXCEPT !.lastLabel = ""]
  ELSE IF IsNewCourseRow(cells)
  THEN IF CleanCell(cells, 0) # <<>> /\ CleanCell(cells, 1) # <<>>
       THEN [courses |-> Append(walk.courses, NewCourse(cells, acadsem)),
             course |-> Len(walk.courses) + 1, lastLabel |-> ""]
       ELSE [walk EXCEPT !.lastLabel = ""]
  ELSE IF walk.course = 0 THEN walk
  ELSE DetailRow(walk, row, cells)

\* rows.forEach callback of parseCourseTable.  course is the place in courses
\* of the course that is open, 0 when none is.
CourseTableRow(walk, row, acadsem) ==
  LET cells == TdCells(row) IN
  IF Len(cells) = 0 THEN walk
  ELSE IF IsCourseCodeHeaderRow(cells)
  THEN [walk EXCEPT !.course = 0, !.lastLabel = ""]
  ELSE IF IsNewCourseRow(cells)
  THEN IF CleanCell(cells, 0) # <<>> /\ CleanCell(cells, 1) # <<>>
       THEN [courses |-> Append(walk.courses, NewCourse(cells, acadsem)),
             course |-> Len(walk.courses) + 1, lastLabel |-> ""]
       ELSE [walk EXCEPT !.lastLabel = ""]
  ELSE IF walk.course = 0 THEN walk
  ELSE DetailRow(walk, row, cells)

\* The final pass of parseContent: the text fields trimmed.
TrimFields(c) ==
  [c EXCEPT !.prerequisites = Trim(@), !.mutual_exclusions = Trim(@),
            !.not_available_to_programme = Trim(@),
            !.not_available_to_all_programme_with = Trim(@),
            !.not_available_as_bde_ue_to_programme = Trim(@),
            !.description = Trim(@), !.grade_type = Trim(@)]

(***************************************************************************)
(* The pages parseContent is run on.                                       *)
(***************************************************************************)
\* Most detail rows below the first course of a page, and the longest AU text.
MaxDetailRows == 2
MaxAuLen == 3

Cell(text) == [tag |-> "td", text |-> text, colspan |-> <<>>]

SpanCell(text, colspan) == [tag |-> "td", text |-> text, colspan |-> colspan]

CourseCodeHeaderRow ==
  <<Cell(<<"C", "O", "U", "R", "S", "E", " ", "C", "O", "D", "E">>), Cell(<<"T", "I",
                                                                            "T", "L",
                                                                            "E">>),
    Cell(<<"A", "U">>), Cell(<<"P", "R", "O", "G", "R", "A", "M", "M", "E">>)>>

CourseRow(code, auText) ==
  <<Cell(code), Cell(<<"N", "E", "T", "W", "O", "R", "K",
                       "S">>), Cell(auText), Cell(<<"C", "S", "C">>)>>

\* A row without label: an empty first cell, and text in a cell that spans
\* the other columns.
ContinuationRow == <<Cell(<<>>), SpanCell(<<"S", "C", "2", "0", "0", "0">>, <<"3">>)>>

\* A row of two cells whose first cell reads as that of a header row.
ShortCourseCodeRow ==
  <<Cell(<<"C", "o", "u", "r", "s", "e", " ", "C", "o", "d", "e">>),
    Cell(<<"T", "i", "t", "l", "e">>)>>

PrerequisiteRow ==
  <<Cell(<<"P", "r", "e", "r", "e", "q", "u", "i", "s", "i", "t", "e", ":">>),
    SpanCell(<<"S", "C", "1", "0", "0", "5">>, <<"2">>)>>

\* A row that has the shape of a course row and no title.
UntitledCourseRow(code) ==
  <<Cell(code), Cell(<<>>), Cell(<<"3", ".", "0">>), Cell(<<"C", "S", "C">>)>>

UnrestrictedBanner ==
  <<SpanCell(<<"N", "o", "t", " ", "o", "f", "f", "e", "r", "e", "d", " ", "a", "s",
               " ", "U", "n", "r", "e", "s", "t", "r", "i", "c", "t", "e", "d", " ",
               "E", "l", "e", "c", "t", "i", "v", "e">>, <<"3">>)>>

BroadeningBanner ==
  <<SpanCell(<<"N", "o", "t", " ", "o", "f", "f", "e", "r", "e", "d", " ", "a", "s",
               " ", "B", "r", "o", "a", "d", "e", "n", "i", "n", "g", " ", "a", "n",
               "d", " ", "D", "e", "e", "p", "e", "n", "i", "n", "g", " ", "E", "l",
               "e", "c", "t", "i", "v", "e">>,
             <<"3">>)>>

DetailRowInputs ==
  {<<Cell(<<"P", "r", "e", "r", "e", "q", "u", "i", "s", "i", "t", "e",
            ":">>), SpanCell(<<"S", "C", "1", "0", "0", "4">>, <<"2">>)>>,
   <<Cell(<<"N", "o", "t", " ", "a", "v", "a", "i", "l", "a", "b", "l", "e", " ", "a",
            "s", " ", "B", "D", "E", "/", "U", "E", " ", "t", "o", " ", "P", "r", "o",
            "g", "r", "a", "m", "m", "e", ":">>),
     SpanCell(<<"B", "C", "E">>, <<"2">>)>>,
   <<Cell(<<"G", "r", "a", "d", "e", " ", "T", "y", "p", "e", ":">>), SpanCell(<<"P",
                                                                                 "a",
                                                                                 "s",
                                                                                 "s",
                                                                                 "/",
                                                                                 "F",
                                                                                 "a",
                                                                                 "i",
                                                                                 "l">>, <<"2">>),
     Cell(<<>>)>>,
   UnrestrictedBanner,
   BroadeningBanner,
   <<SpanCell(<<"I", "n", "t", "r", "o", " ", "t", "o", " ", "n", "e", "t", "w", "o",
                "r", "k", "s", ".">>, <<"4">>)>>,
   ContinuationRow,
   <<Cell(<<"d", "e", "s", "c", "r", "i", "p", "t", "i", "o", "n">>), Cell(<<"B", "a",
                                                                             "s", "i",
                                                                             "c", "s",
                                                                             ".">>), Cell(<<>>), Cell(<<>>)>>,
   <<[tag |-> "th", text |-> <<"N", "O", "T", " ", "O", "F", "F", "E", "R", "E", "D",
                               " ", "A", "S", " ", "U", "N", "R", "E", "S", "T", "R",
                               "I", "C", "T", "E", "D", " ", "E", "L", "E", "C", "T",
                               "I", "V", "E">>,
      colspan |-> <<"4">>]>>}

\* What follows the detail rows of the first course: nothing; a second course
\* with a banner of its own; a header row and a banner no course is open for;
\* a further table that holds a banner only; a row with a code and no title,
\* and a banner below it; a row of two cells that reads COURSE CODE, and a
\* labelled row below it.
ContentTails ==
  {[rows |-> <<>>, tables |-> <<>>],
   [rows |-> <<CourseRow(<<"S", "C", "2">>, <<"4", ".", "0", " ", "A", "U">>),
               UnrestrictedBanner, ContinuationRow>>,
    tables |-> <<>>],
   [rows |-> <<CourseCodeHeaderRow, BroadeningBanner>>, tables |-> <<>>],
   [rows |-> <<>>, tables |-> <<<<UnrestrictedBanner>>>>],
   [rows |-> <<UntitledCourseRow(<<"S", "C", "9">>), BroadeningBanner>>,
    tables |-> <<>>],
   [rows |-> <<ShortCourseCodeRow, PrerequisiteRow>>, tables |-> <<>>]}

ContentPages ==
  {<<<<CourseCodeHeaderRow, CourseRow(<<"S", "C", "1">>, <<"3", ".",
                                                           "0">>)>> \o details \o tail.rows>>
     \o tail.tables :
     details \in SeqsUpTo(DetailRowInputs, MaxDetailRows), tail \in ContentTails}

\* The characters the AU texts are made of.
AuAlphabet == {"0", "3", ".", "A", "U", " ", "-"}

AuPages ==
  {<<<<CourseCodeHeaderRow, CourseRow(<<"S", "C",
                                        "1">>, auText), UnrestrictedBanner>>>> :
     auText \in SeqsUpTo(AuAlphabet, MaxAuLen)}

(***************************************************************************)
(* The walk of parseContent over a page.                                   *)
(***************************************************************************)
InitContentWalk ==
  /\ InitDb
  /\ ExamScraperIdle
  /\ ScheduleWritersIdle
  /\ ConnectionIdle
  /\ MetadataIdle
  /\ ExamMetadataIdle
  /\ OptionsIdle
  /\ ParserIdle
  /\ ScheduleParserIdle
  /\ VacancyIdle
  /\ ParseNumberIdle
  /\ contentPc = "tables"
  /\ contentTableNo = 0
  /\ contentRowNo = 0
  /\ contentWalk = [courses |-> <<>>, course |-> 0, lastLabel |-> ""]
  /\ contentOrigin = <<>>
  /\ contentResult = <<>>

InitContentParser == InitContentWalk /\ contentHtml \in ContentPages

InitContentAu == InitContentWalk /\ contentHtml \in AuPages

\* $('table').each: parseCourseTable starts on the next table, no course open.
ContentEachTable ==
  /\ contentPc = "tables"
  /\ contentTableNo < Len(contentHtml)
  /\ contentTableNo' = contentTableNo + 1
  /\ contentRowNo' = 0
  /\ contentPc' = "rows"
  /\ contentWalk' = [contentWalk EXCEPT !.course = 0, !.lastLabel = ""]
  /\ UNCHANGED <<contentHtml, contentOrigin, contentResult>>
  /\ UNCHANGED idleInContentParser

\* rows.forEach: the next row of the table.
ContentEachRow ==
  /\ contentPc = "rows"
  /\ contentRowNo < Len(contentHtml[contentTableNo])
  /\ contentRowNo' = contentRowNo + 1
  /\ contentWalk' = CourseTableRow(contentWalk,
                                   contentHtml[contentTableNo][contentRowNo + 1], Acadsem)
  /\ contentOrigin' =
       IF Len(contentWalk'.courses) > Len(contentWalk.courses)
       THEN Append(contentOrigin, <<contentTableNo, contentRowNo + 1>>)
       ELSE contentOrigin
  /\ UNCHANGED <<contentHtml, contentPc, contentTableNo, contentResult>>
  /\ UNCHANGED idleInContentParser

\* return courses, at the end of parseCourseTable
ContentEndOfRows ==
  /\ contentPc = "rows"
  /\ contentRowNo = Len(contentHtml[contentTableNo])
  /\ contentPc' = "tables"
  /\ UNCHANGED <<contentHtml, contentTableNo, contentRowNo, contentWalk, contentOrigin,
                 contentResult>>
  /\ UNCHANGED idleInContentParser

\* return courses.map(...): the final pass
ContentReturn ==
  /\ contentPc = "tables"
  /\ contentTableNo = Len(contentHtml)
  /\ contentPc' = "done"
  /\ contentResult' = [i \in 1..Len(contentWalk.courses) |->
                         TrimFields(contentWalk.courses[i])]
  /\ UNCHANGED <<contentHtml, contentTableNo, contentRowNo, contentWalk, contentOrigin>>
  /\ UNCHANGED idleInContentParser

NextContentParser ==
  ContentEachTable \/ ContentEachRow \/ ContentEndOfRows \/ ContentReturn

SpecContentParser == InitContentParser /\ [][NextContentParser]_vars

SpecContentAu == InitContentAu /\ [][NextContentParser]_vars

(***************************************************************************)
(* parseNumber of parsers/vacancyParser.js.  An argument is a string or    *)
(* something else (undefined, null, a number), on which text.trim throws.  *)
(***************************************************************************)
\* Longest text handed to parseNumber, the fixed texts apart.
MaxNumLen == 3

Returned(value) == [thrown |-> FALSE, value |-> value]

Thrown == [thrown |-> TRUE, value |-> 0]

\* parseInt(text, 10): white space, a sign, digits; NaN (null here) when no
\* digit is found.
ParseInt(text) ==
  LET trimmed == TrimStart(text)
      signed == trimmed # <<>> /\ trimmed[1] \in {"+", "-"}
      unsigned == IF signed THEN Tail(trimmed) ELSE trimmed
      digits == LeadingDigits(unsigned)
  IN  IF digits = <<>> THEN Null
      ELSE Some((IF signed /\ trimmed[1] = "-" THEN -1 ELSE 1) * DigitsToNat(digits))

\* The body of the try block of parseNumber.
ParseNumberBody(arg) ==
  IF ~arg.isString THEN Thrown
  ELSE LET trimmed == Trim(arg.text) IN
       IF \/ trimmed = <<>>
          \/ trimmed = <<"&", "n", "b", "s", "p", ";">>
          \/ trimmed = <<"-">>
          \/ trimmed = <<"N", "/", "A">>
       THEN Returned(0)
       ELSE IF ParseInt(trimmed) = Null THEN Returned(0)
       ELSE Returned(ParseInt(trimmed)[1])

\* parseNumber that would let the exception of text.trim() out.
ParseNumberWithoutCatch(arg) == ParseNumberBody(arg)

\* parseNumber: try { ... } catch (error) { return 0; }
ParseNumber(arg) ==
  IF ParseNumberBody(arg).thrown THEN Returned(0) ELSE ParseNumberBody(arg)

String(text) == [isString |-> TRUE, text |-> text]

NotAString == [isString |-> FALSE, text |-> <<>>]

\* The characters the texts are made of.
NumAlphabet == {"0", "1", "7", "-", "+", " ", "a", "."}

NumberArgs ==
  {String(text) : text \in SeqsUpTo(NumAlphabet, MaxNumLen)}
    \cup {String(<<"&", "n", "b", "s", "p", ";">>), String(<<"N", "/",
                                                             "A">>), String(<<"1",
                                                                              "2",
                                                                              ".",
                                                                              "5">>), String(<<" ", "1", "2", "3", " ">>),
          String(<<"a", "b", "c">>), NotAString}

InitParseNumber ==
  /\ InitDb
  /\ ExamScraperIdle
  /\ ScheduleWritersIdle
  /\ ConnectionIdle
  /\ MetadataIdle
  /\ ExamMetadataIdle
  /\ OptionsIdle
  /\ ParserIdle
  /\ ScheduleParserIdle
  /\ ContentParserIdle
  /\ VacancyIdle
  /\ numArg \in NumberArgs
  /\ numPc = "call"
  /\ numResult = Returned(0)

\* The call of parseNumber(text).
ParseNumberCall ==
  /\ numPc = "call"
  /\ numPc' = "returned"
  /\ numResult' = ParseNumber(numArg)
  /\ UNCHANGED numArg
  /\ UNCHANGED idleInParseNumber

NextParseNumber == ParseNumberCall

SpecParseNumber == InitParseNumber /\ [][NextParseNumber]_vars

(***************************************************************************)
(* parseVacancyHtml of parsers/vacancyParser.js and the handler of         *)
(* GET /vacancy (routes/vacancy.js).  What fetchVacancy returns is a       *)
(* string, given by the text of its script and by its tables, or something *)
(* that is no string, on which html.match throws.                          *)
(***************************************************************************)
\* Most data rows of a vacancy table.
MaxVacRows == 2

Quotes == {"\"", "'"}

\* The text of the page the expression of the alert is matched on.
HtmlSource(html) ==
  html.script \o Concat([t \in 1..Len(html.tables) |-> TableText(html.tables[t].rows)])

\* The first place from i on that holds no white space: \s*
RECURSIVE SkipWhiteSpace(_, _)
SkipWhiteSpace(text, i) ==
  IF i <= Len(text) /\ text[i] \in WhiteSpace THEN SkipWhiteSpace(text, i + 1) ELSE i

\* The first place from i on that holds a quote: [^"']*
RECURSIVE SkipToQuote(_, _)
SkipToQuote(text, i) ==
  IF i <= Len(text) /\ text[i] \notin Quotes THEN SkipToQuote(text, i + 1) ELSE i

\* /alert\s*\(\s*["']([^"']*)["']\s*\)/ matched at place p: the text of the
\* group, or null when the expression does not match there.
AlertMatchAt(text, p) ==
  LET open == SkipWhiteSpace(text, p + 5)
      quote == SkipWhiteSpace(text, open + 1)
      unquote == SkipToQuote(text, quote + 1)
      close == SkipWhiteSpace(text, unquote + 1)
  IN  IF /\ p + 4 <= Len(text) /\ SubSeq(text, p, p + 4) = <<"a", "l", "e", "r", "t">>
         /\ open <= Len(text) /\ text[open] = "("
         /\ quote <= Len(text) /\ text[quote] \in Quotes
         /\ unquote <= Len(text)
         /\ close <= Len(text) /\ text[close] = ")"
      THEN Some(SubSeq(text, quote + 1, unquote - 1))
      ELSE Null

\* html.match(...): the group of the leftmost match, or null
AlertMatch(text) ==
  LET places == {p \in 1..Len(text) : text[p] = "a" /\ AlertMatchAt(text, p) # Null}
  IN  IF places = {} THEN Null
      ELSE AlertMatchAt(text, CHOOSE p \in places : \A q \in places : p <= q)

AlertErrorUntrimmed(alertMatch) == [indexes |-> <<>>, error |-> Some(alertMatch[1])]

\* return { indexes: [], error: errorMessage }
AlertError(alertMatch) == [indexes |-> <<>>, error |-> Some(Trim(alertMatch[1]))]

NoTableAsError ==
  [indexes |-> <<>>, error |-> Some(<<"N", "o", " ", "v", "a", "c", "a", "n", "c",
                                      "y", " ", "t", "a", "b", "l", "e", " ", "f",
                                      "o", "u", "n", "d">>)]

\* return { indexes: [], error: null }, when no table[border] is found
NoTable == [indexes |-> <<>>, error |-> Null]

\* return { indexes: [], error: `Failed to parse response: ${error.message}` }
ParseFailure ==
  [indexes |-> <<>>, error |-> Some(<<"F", "a", "i", "l", "e", "d", " ", "t", "o",
                                      " ", "p", "a", "r", "s", "e", " ", "r", "e",
                                      "s", "p", "o", "n", "s", "e", ":", " ", "h",
                                      "t", "m", "l", ".", "m", "a", "t", "c", "h",
                                      " ", "i", "s", " ", "n", "o", "t", " ", "a",
                                      " ", "f", "u", "n", "c", "t", "i", "o", "n">>)]

\* $('table[border]').first(): its place among the tables, 0 when there is none
FirstBorderTable(html) ==
  IF \E t \in 1..Len(html.tables) : html.tables[t].border
  THEN CHOOSE t \in 1..Len(html.tables) :
         /\ html.tables[t].border
         /\ \A u \in 1..(t - 1) : ~html.tables[u].border
  ELSE 0

\* $(cells[i]).text().trim()
TrimmedCell(cells, i) == Trim(cells[i + 1].text)

\* Is the index cell one that opens a group?
OpensIndex(indexNum) == indexNum # <<>> /\ indexNum # <<"&", "n", "b", "s", "p", ";">>

\* currentIndex = { index, vacancy, waitlist, classes: [] }
NewIndex(cells) ==
  [index |-> TrimmedCell(cells, 0),
   vacancy |-> ParseNumber(String(TrimmedCell(cells, 1))).value,
   waitlist |-> ParseNumber(String(TrimmedCell(cells, 2))).value,
   classes |-> <<>>]

\* { type, group, day, time, venue }
ClassSession(cells) ==
  [type |-> TrimmedCell(cells, 3), group |-> TrimmedCell(cells, 4),
   day |-> TrimmedCell(cells, 5), time |-> TrimmedCell(cells, 6),
   venue |-> TrimmedCell(cells, 7)]

\* indexes.push(currentIndex), when the index cell opens a group
WithNewIndex(walk, cells) ==
  IF OpensIndex(TrimmedCell(cells, 0))
  THEN [indexes |-> Append(walk.indexes, NewIndex(cells)),
        currentIndex |-> Len(walk.indexes) + 1]
  ELSE walk

WithClassSessionWhateverType(walk, cells) ==
  IF walk.currentIndex # 0
  THEN [walk EXCEPT !.indexes[walk.currentIndex].classes = Append(@, ClassSession(cells))]
  ELSE walk

\* currentIndex.classes.push(...), when a group is open and the type is given
WithClassSession(walk, cells) ==
  IF walk.currentIndex # 0 /\ TrimmedCell(cells, 3) # <<>>
  THEN [walk EXCEPT !.indexes[walk.currentIndex].classes = Append(@, ClassSession(cells))]
  ELSE walk

\* rows.each callback of parseVacancyHtml.  currentIndex is the place in
\* indexes of the group that is open, 0 when none is.
VacancyRow(walk, row) ==
  IF Len(TdCells(row)) < 8 THEN walk
  ELSE WithClassSession(WithNewIndex(walk, TdCells(row)), TdCells(row))

\* JS truthiness of a string that may be null or undefined
Truthy(text) == text # Null /\ text[1] # <<>>

\* vacancyResponseSchema.parse(response): strings and numbers where the
\* schema asks for them
IsValidResponse(indexes) ==
  \A i \in 1..Len(indexes) : indexes[i].vacancy \in Int /\ indexes[i].waitlist \in Int

Response(status, code, indexes) == [status |-> status, code |-> code, indexes |-> indexes]

\* indexes.filter(idx => idx.index === index.trim())
FilterIndexes(indexes, index) ==
  SelectSeq(indexes, LAMBDA idx : idx.index = Trim(index))

\* The handler of GET /vacancy from the parsed result on.
Respond(query, result) ==
  IF Truthy(result.error)
  THEN IF Includes(result.error[1], <<"o", "n", "l", "y", " ", "a", "v", "a", "i",
                                      "l", "a", "b", "l", "e", " ", "f", "r", "o",
                                      "m">>)
       THEN Response(503, "SERVICE_UNAVAILABLE", <<>>)
       ELSE Response(500, "UPSTREAM_ERROR", <<>>)
  ELSE IF Len(result.indexes) = 0 THEN Response(404, "NOT_FOUND", <<>>)
  ELSE IF Truthy(query.index)
  THEN IF Len(FilterIndexes(result.indexes, query.index[1])) = 0
       THEN Response(404, "INDEX_NOT_FOUND", <<>>)
       ELSE IF IsValidResponse(FilterIndexes(result.indexes, query.index[1]))
       THEN Response(200, "", FilterIndexes(result.indexes, query.index[1]))
       ELSE Response(500, "VALIDATION_ERROR", <<>>)
  ELSE IF IsValidResponse(result.indexes) THEN Response(200, "", result.indexes)
  ELSE Response(500, "VALIDATION_ERROR", <<>>)

(***************************************************************************)
(* The requests and the pages the handler is run on.                       *)
(***************************************************************************)
VacancyHeaderRow ==
  <<Th(<<"I", "N", "D", "E", "X">>), Th(<<"V", "A", "C", "A", "N", "C",
                                          "Y">>), Th(<<"W", "A", "I", "T", "L", "I",
                                                       "S", "T">>), Th(<<"T", "Y",
                                                                         "P",
                                                                         "E">>), Th(<<"G", "R", "O", "U", "P">>),
    Th(<<"D", "A", "Y">>), Th(<<"T", "I", "M", "E">>), Th(<<"V", "E", "N", "U", "E">>)>>

VacancyDataRow(indexNum, vacancy, waitlist, type) ==
  <<Td(indexNum), Td(vacancy), Td(waitlist), Td(type), Td(<<"G", "1">>), Td(<<"M",
                                                                              "O",
                                                                              "N">>),
    Td(<<"0", "8", "3", "0">>), Td(<<"L", "T", "1">>)>>

\* Rows that open a group, rows that go on with one, a row without type, a
\* row whose index cell reads &nbsp;, and a row of two cells.
VacancyRowInputs ==
  {VacancyDataRow(<<"1", "0", "2", "9", "4">>, <<"5">>, <<"2">>, <<"L", "E", "C">>),
   VacancyDataRow(<<>>, <<>>, <<>>, <<"T", "U", "T">>),
   VacancyDataRow(<<" ", "1", "0", "2", "9", "5", " ">>, <<"-">>, <<"N", "/",
                                                                    "A">>, <<"L", "E",
                                                                             "C">>),
   VacancyDataRow(<<"1", "0", "2", "9", "6">>, <<"0">>, <<"1", "0">>, <<" ">>),
   VacancyDataRow(<<"&", "n", "b", "s", "p", ";">>, <<" ">>, <<>>, <<"L", "A", "B">>),
   <<Td(<<"1", "0", "2", "9", "7">>), Td(<<"5">>)>>}

BorderTable(rows) == [border |-> TRUE, rows |-> <<VacancyHeaderRow>> \o rows]

PlainTable(rows) == [border |-> FALSE, rows |-> <<VacancyHeaderRow>> \o rows]

\* The tables of a page: none, one without border, one with border, one
\* without border above one with border.
VacancyTables ==
  {<<>>,
   <<PlainTable(<<VacancyDataRow(<<"1", "0", "2", "9", "4">>, <<"5">>, <<"2">>, <<"L",
                                                                                  "E",
                                                                                  "C">>)>>)>>,
   <<PlainTable(<<VacancyDataRow(<<"1", "0", "2", "9", "4">>, <<"5">>, <<"2">>, <<"L",
                                                                                  "E",
                                                                                  "C">>)>>),
     BorderTable(<<VacancyDataRow(<<" ", "1", "0", "2", "9", "5",
                                    " ">>, <<"-">>, <<"N", "/", "A">>, <<"L", "E",
                                                                         "C">>)>>)>>}
    \cup {<<BorderTable(rows)>> : rows \in SeqsUpTo(VacancyRowInputs, MaxVacRows)}

\* The scripts of a page: no alert, the alert of the service hours, an alert
\* in single quotes with spaces, an alert without message, an alert whose
\* message holds an apostrophe.
VacancyScripts ==
  {<<"w", "i", "n", "d", "o", "w", ".", "c", "l", "o", "s", "e", "(", ")">>,
   <<"a", "l", "e", "r", "t", "(", "\"", " ", "V", "a", "c", "a", "n", "c", "i", "e",
     "s", " ", "o", "n", "l", "y", " ", "a", "v", "a", "i", "l", "a", "b", "l", "e",
     " ", "f", "r", "o", "m", " ", "9", " ", "a", "m", " ", "!", " ", "\"", ")">>,
   <<"a", "l", "e", "r", "t", " ", "(", " ", "'", "N", "o", " ", "s", "u", "c", "h",
     " ", "c", "o", "u", "r", "s", "e", "'", " ", ")", " ", "w", "i", "n", "d", "o",
     "w", ".", "c", "l", "o", "s", "e", "(", ")">>,
   <<"a", "l", "e", "r", "t", "(", "\"", "\"", ")">>,
   <<"a", "l", "e", "r", "t", "(", "\"", "C", "o", "u", "r", "s", "e", " ", "i", "s",
     "n", "'", "t", " ", "o", "f", "f", "e", "r", "e", "d", "\"", ")">>}

Fetched(script, tables) ==
  [throws |-> "", isString |-> TRUE, script |-> script, tables |-> tables]

FetchThrows(code) == [throws |-> code, isString |-> TRUE, script |-> <<>>, tables |-> <<>>]

\* What fetchVacancy does: it returns a page, or what is no string, or throws.
VacancyFetches ==
  {Fetched(script, tables) : script \in VacancyScripts, tables \in VacancyTables}
    \cup {[throws |-> "", isString |-> FALSE, script |-> <<>>, tables |-> <<>>],
          FetchThrows("ECONNREFUSED"), FetchThrows("ETIMEDOUT"), FetchThrows("ERR_OTHER")}

Query(course_code, index) == [course_code |-> course_code, index |-> index]

\* req.query: course_code missing or empty or given, index missing or given
VacancyQueries ==
  {Query(Null, Some(<<"1", "0", "2", "9", "4">>)),
   Query(Some(<<>>), Null),
   Query(Some(<<"s", "c", "1">>), Null),
   Query(Some(<<"s", "c", "1">>), Some(<<"1", "0", "2", "9", "4">>)),
   Query(Some(<<"s", "c", "1">>), Some(<<" ", "1", "0", "2", "9", "5", " ">>)),
   Query(Some(<<"s", "c", "1">>), Some(<<"9", "9", "9", "9", "9">>))}

(***************************************************************************)
(* The handler of GET /vacancy, parseVacancyHtml within it.                *)
(***************************************************************************)
InitVacancy ==
  /\ InitDb
  /\ ExamScraperIdle
  /\ ScheduleWritersIdle
  /\ ConnectionIdle
  /\ MetadataIdle
  /\ ExamMetadataIdle
  /\ OptionsIdle
  /\ ParserIdle
  /\ ScheduleParserIdle
  /\ ContentParserIdle
  /\ ParseNumberIdle
  /\ vacQuery \in VacancyQueries
  /\ vacFetch \in VacancyFetches
  /\ vacPc = "request"
  /\ vacRowNo = 0
  /\ vacIndexes = <<>>
  /\ vacCurrentIndex = 0
  /\ vacOrigin = <<>>
  /\ vacResult = <<>>
  /\ vacResponse = <<>>

\* The table parseVacancyHtml walks.
VacancyTable == vacFetch.tables[FirstBorderTable(vacFetch)]

\* if (!course_code) return res.status(400)
RouteMissingCourseCode ==
  /\ vacPc = "request"
  /\ ~Truthy(vacQuery.course_code)
  /\ vacPc' = "responded"
  /\ vacResponse' = Some(Response(400, "INVALID_REQUEST", <<>>))
  /\ UNCHANGED <<vacQuery, vacFetch, vacRowNo, vacIndexes, vacCurrentIndex, vacOrigin,
                 vacResult>>
  /\ UNCHANGED idleInVacancy

\* const html = await fetchVacancy(courseCodeUpper), which returns
RouteFetchVacancy ==
  /\ vacPc = "request"
  /\ Truthy(vacQuery.course_code)
  /\ vacFetch.throws = ""
  /\ vacPc' = "parse"
  /\ UNCHANGED <<vacQuery, vacFetch, vacRowNo, vacIndexes, vacCurrentIndex, vacOrigin,
                 vacResult, vacResponse>>
  /\ UNCHANGED idleInVacancy

\* fetchVacancy throws: the catch block of the handler
RouteFetchFailed ==
  /\ vacPc = "request"
  /\ Truthy(vacQuery.course_code)
  /\ vacFetch.throws # ""
  /\ vacPc' = "responded"
  /\ vacResponse' =
       IF vacFetch.throws \in {"ECONNREFUSED", "ETIMEDOUT"}
       THEN Some(Response(503, "UPSTREAM_ERROR", <<>>))
       ELSE Some(Response(500, "next(error)", <<>>))
  /\ UNCHANGED <<vacQuery, vacFetch, vacRowNo, vacIndexes, vacCurrentIndex, vacOrigin,
                 vacResult>>
  /\ UNCHANGED idleInVacancy

\* html.match throws on what is no string: the catch block of the parser
VacancyException ==
  /\ vacPc = "parse"
  /\ ~vacFetch.isString
  /\ vacPc' = "parsed"
  /\ vacResult' = Some(ParseFailure)
  /\ UNCHANGED <<vacQuery, vacFetch, vacRowNo, vacIndexes, vacCurrentIndex, vacOrigin,
                 vacResponse>>
  /\ UNCHANGED idleInVacancy

\* if (alertMatch) return { indexes: [], error: errorMessage }
VacancyAlert ==
  /\ vacPc = "parse"
  /\ vacFetch.isString
  /\ AlertMatch(HtmlSource(vacFetch)) # Null
  /\ vacPc' = "parsed"
  /\ vacResult' = Some(AlertError(AlertMatch(HtmlSource(vacFetch))))
  /\ UNCHANGED <<vacQuery, vacFetch, vacRowNo, vacIndexes, vacCurrentIndex, vacOrigin,
                 vacResponse>>
  /\ UNCHANGED idleInVacancy

\* if (!table.length) return { indexes: [], error: null }
VacancyNoTable ==
  /\ vacPc = "parse"
  /\ vacFetch.isString
  /\ AlertMatch(HtmlSource(vacFetch)) = Null
  /\ FirstBorderTable(vacFetch) = 0
  /\ vacPc' = "parsed"
  /\ vacResult' = Some(NoTable)
  /\ UNCHANGED <<vacQuery, vacFetch, vacRowNo, vacIndexes, vacCurrentIndex, vacOrigin,
                 vacResponse>>
  /\ UNCHANGED idleInVacancy

\* const rows = table.find('tr').slice(1): the walk starts below the first row
VacancyRows ==
  /\ vacPc = "parse"
  /\ vacFetch.isString
  /\ AlertMatch(HtmlSource(vacFetch)) = Null
  /\ FirstBorderTable(vacFetch) # 0
  /\ vacPc' = "rows"
  /\ vacRowNo' = 1
  /\ vacIndexes' = <<>>
  /\ vacCurrentIndex' = 0
  /\ UNCHANGED <<vacQuery, vacFetch, vacOrigin, vacResult, vacResponse>>
  /\ UNCHANGED idleInVacancy

\* rows.each: the next row of the table.  vacOrigin keeps, per group, the
\* rows its class sessions came from.
VacancyEachRow ==
  /\ vacPc = "rows"
  /\ vacRowNo < Len(VacancyTable.rows)
  /\ vacRowNo' = vacRowNo + 1
  /\ LET after == VacancyRow([indexes |-> vacIndexes, currentIndex |-> vacCurrentIndex],
                             VacancyTable.rows[vacRowNo + 1])
     IN  /\ vacIndexes' = after.indexes
         /\ vacCurrentIndex' = after.currentIndex
         /\ vacOrigin' =
              [g \in 1..Len(after.indexes) |->
                 LET before == IF g <= Len(vacIndexes) THEN vacOrigin[g]
                               ELSE [row |-> vacRowNo + 1, classes |-> <<>>]
                     had == IF g <= Len(vacIndexes) THEN Len(vacIndexes[g].classes) ELSE 0
                 IN  IF Len(after.indexes[g].classes) > had
                     THEN [before EXCEPT !.classes = Append(@, vacRowNo + 1)]
                     ELSE before]
  /\ UNCHANGED <<vacQuery, vacFetch, vacPc, vacResult, vacResponse>>
  /\ UNCHANGED idleInVacancy

\* return { indexes, error: null }
VacancyReturn ==
  /\ vacPc = "rows"
  /\ vacRowNo = Len(VacancyTable.rows)
  /\ vacPc' = "parsed"
  /\ vacResult' = Some([indexes |-> vacIndexes, error |-> Null])
  /\ UNCHANGED <<vacQuery, vacFetch, vacRowNo, vacIndexes, vacCurrentIndex, vacOrigin,
                 vacResponse>>
  /\ UNCHANGED idleInVacancy

\* The handler from 'if (result.error)' to res.json(validated).
RouteRespond ==
  /\ vacPc = "parsed"
  /\ vacPc' = "responded"
  /\ vacResponse' = Some(Respond(vacQuery, vacResult[1]))
  /\ UNCHANGED <<vacQuery, vacFetch, vacRowNo, vacIndexes, vacCurrentIndex, vacOrigin,
                 vacResult>>
  /\ UNCHANGED idleInVacancy

NextVacancy ==
  \/ RouteMissingCourseCode
  \/ RouteFetchVacancy
  \/ RouteFetchFailed
  \/ VacancyException
  \/ VacancyAlert
  \/ VacancyNoTable
  \/ VacancyRows
  \/ VacancyEachRow
  \/ VacancyReturn
  \/ RouteRespond

SpecVacancy == InitVacancy /\ [][NextVacancy]_vars

(***************************************************************************)
(* The form parsers, parseScheduleOptions(html) and                        *)
(* parseContentOptions(html) of parsers/metaParser.js.                     *)
(*                                                                         *)
(* The document is the sequence of its select and input elements, in       *)
(* document order.  An attribute is <<>> when the element has none, <<v>>  *)
(* when its value is v.                                                    *)
(***************************************************************************)
\* Most options of a select.
MaxOptions == 2

\* el.attr('value') || ''
AttrOrEmpty(attr) == IF attr = Null THEN <<>> ELSE attr[1]

\* $(`select[name="${name}"] option`): the options of the selects of that
\* name, in document order.
OptionsOf(html, name) ==
  Concat([i \in 1..Len(html) |->
            IF html[i].tag = "select" /\ html[i].name = name
            THEN html[i].options ELSE <<>>])

\* A map callback that keeps the options without value.
SelectOptionKeepingEmpty(option) ==
  Some([value |-> Clean(AttrOrEmpty(option.value)), label |-> Clean(option.text)])

\* The map callback of selectOptions: null for an option without value.
SelectOption(option) ==
  IF Clean(AttrOrEmpty(option.value)) = <<>> THEN Null
  ELSE Some([value |-> Clean(AttrOrEmpty(option.value)), label |-> Clean(option.text)])

\* .map(...).get(): the values that are not null, in order.
SelectOptions(html, name) ==
  LET options == OptionsOf(html, name) IN
  Concat([i \in 1..Len(options) |-> SelectOption(options[i])])

\* $(`input[name="${name}"][type="radio"]`).map(...).get()
RadioOptions(html, name) ==
  LET radios == SelectSeq(html, LAMBDA el : el.tag = "input" /\ el.name = name
                                            /\ el.type = "radio")
  IN  [i \in 1..Len(radios) |->
         [value |-> Clean(AttrOrEmpty(radios[i].value)), label |-> Clean(radios[i].text),
          checked |-> radios[i].checked]]

ParseScheduleOptions(html) ==
  [acadsem |-> SelectOptions(html, "acadsem"),
   courseYears |-> SelectOptions(html, "r_course_yr"),
   searchTypes |-> RadioOptions(html, "r_search_type")]

ParseContentOptions(html) ==
  [acadsem |-> SelectOptions(html, "acadsem"),
   courseYears |-> SelectOptions(html, "r_course_yr")]

\* The elements of the forms.
Option(value, text) == [value |-> value, text |-> text]

Select(name, options) ==
  [tag |-> "select", name |-> name, type |-> "", value |-> Null, checked |-> FALSE,
   text |-> <<>>, options |-> options]

Radio(name, value, checked, text) ==
  [tag |-> "input", name |-> name, type |-> "radio", value |-> value,
   checked |-> checked, text |-> text, options |-> <<>>]

\* Options with a value, with an empty value, without value attribute, with
\* a value and a text that hold white space, and with a blank value.
OptionInputs ==
  {Option(Some(<<"2", "0", "2", "5", "_", "1">>), <<"2", "0", "2", "5", " ", "S", "e",
                                                    "m", " ", "1">>),
   Option(Some(<<>>), <<"S", "e", "l", "e", "c", "t">>),
   Option(Null, <<"A", "l", "l">>),
   Option(Some(<<" ", "2", "0", "2", "4", ";", "2">>), <<"2", "0", "2", "4", " ", " ",
                                                         "S", "e", "m", " ", "2",
                                                         " ">>),
   Option(Some(<<" ">>), <<"B", "l", "a", "n", "k">>)}

\* The forms: with a select acadsem or without, with a select r_course_yr
\* or without, with the radio buttons of the schedule form or without.
OptionPages ==
  UNION {{acadsem \o courseYears \o searchTypes :
            courseYears \in {<<>>, <<Select("r_course_yr",
                                            <<Option(Some(<<>>), <<"S", "e", "l", "e",
                                                                   "c", "t">>),
                                              Option(Some(<<"1">>), <<"Y", "e", "a",
                                                                      "r", " ",
                                                                      "1">>)>>)>>},
            searchTypes \in {<<>>, <<Radio("r_search_type", Some(<<"F">>), TRUE,
                                           <<" ", "F", "u", "l", "l", " ", "T", "i",
                                             "m", "e", " ">>),
                                     Radio("r_search_type", Null, FALSE, <<>>)>>}} :
         acadsem \in {<<>>} \cup {<<Select("acadsem", options)>> :
                                    options \in SeqsUpTo(OptionInputs, MaxOptions)}}

InitOptions ==
  /\ InitDb
  /\ ExamScraperIdle
  /\ ScheduleWritersIdle
  /\ ConnectionIdle
  /\ MetadataIdle
  /\ ExamMetadataIdle
  /\ ParserIdle
  /\ ScheduleParserIdle
  /\ ContentParserIdle
  /\ VacancyIdle
  /\ ParseNumberIdle
  /\ optHtml \in OptionPages
  /\ optPc = "idle"
  /\ optResult = [acadsem |-> <<>>, courseYears |-> <<>>]

ParseScheduleOptionsCall ==
  /\ optPc = "idle"
  /\ optPc' = "schedule"
  /\ optResult' = ParseScheduleOptions(optHtml)
  /\ UNCHANGED optHtml
  /\ UNCHANGED idleInOptions

ParseContentOptionsCall ==
  /\ optPc = "idle"
  /\ optPc' = "content"
  /\ optResult' = ParseContentOptions(optHtml)
  /\ UNCHANGED optHtml
  /\ UNCHANGED idleInOptions

NextOptions == ParseScheduleOptionsCall \/ ParseContentOptionsCall

SpecOptions == InitOptions /\ [][NextOptions]_vars

(***************************************************************************)
(* parseExamMetadata(html) of parsers/examParser.js.                       *)
(*                                                                         *)
(* The document is a record of what the parser asks it for: the radio      *)
(* buttons p_plan_no, the values of the inputs, the options of the select  *)
(* academic_session.  .val() of an input the document does not hold is     *)
(* undefined, which is the empty text here: both are falsy.                *)
(***************************************************************************)
\* a || b, of two texts
OrElse(a, b) == IF a # <<>> THEN a ELSE b

\* Does the text hold the literal at place i?
HasLiteralAt(text, i, literal) ==
  /\ i >= 1
  /\ i + Len(literal) - 1 <= Len(text)
  /\ SubSeq(text, i, i + Len(literal) - 1) = literal

\* The digits of the text from place i on.
DigitsAt(text, i) ==
  IF i > Len(text) THEN <<>> ELSE LeadingDigits(SubSeq(text, i, Len(text)))

\* /Semester (\d+) Academic Year (\d{4})-(\d{4})/ tried at place i: the
\* groups, or <<>> when it does not match there.
SessionMatchAt(text, i) ==
  LET semester == DigitsAt(text, i + 9)
      year == i + 9 + Len(semester) + 15
  IN  IF /\ HasLiteralAt(text, i, <<"S", "e", "m", "e", "s", "t", "e", "r", " ">>)
         /\ semester # <<>>
         /\ HasLiteralAt(text, i + 9 + Len(semester), <<" ", "A", "c", "a", "d", "e",
                                                        "m", "i", "c", " ", "Y", "e",
                                                        "a", "r", " ">>)
         /\ Len(DigitsAt(text, year)) >= 4
         /\ HasLiteralAt(text, year + 4, <<"-">>)
         /\ Len(DigitsAt(text, year + 5)) >= 4
      THEN <<<<SubSeq(text, i, year + 8), semester, SubSeq(text, year, year + 3),
               SubSeq(text, year + 5, year + 8)>>>>
      ELSE <<>>

\* academicSession.match(...): the match array of the leftmost match, or
\* <<>> for null.
SessionMatch(text) ==
  LET places == {i \in 1..Len(text) : SessionMatchAt(text, i) # <<>>}
  IN  IF places = {} THEN <<>>
      ELSE SessionMatchAt(text, CHOOSE i \in places : \A j \in places : i <= j)[1]

\* A parser that takes the year from the third group.
SessionYearOfEnd(sessionMatch) == sessionMatch[4]

\* parsedYear = sessionMatch[2]
SessionYear(sessionMatch) == sessionMatch[3]

\* parsedSemester = sessionMatch[1]
SessionSemester(sessionMatch) == sessionMatch[2]

\* The plans of a page with radio buttons p_plan_no.
PlansOf(planRadios) ==
  [i \in 1..Len(planRadios) |->
     [planNo |-> planRadios[i].value,
      label |-> OrElse(Trim(planRadios[i].parentText),
                       OrElse(Trim(planRadios[i].labelText),
                              <<"P", "l", "a", "n", " ">> \o planRadios[i].value))]]

\* The text of the options of the select that are selected.
SelectedText(options) ==
  Concat([i \in 1..Len(options) |-> IF options[i].selected THEN options[i].text ELSE <<>>])

FirstText(options) == IF options = <<>> THEN <<>> ELSE options[1].text

ParseExamMetadata(html) ==
  IF html.planRadios # <<>> THEN PlansOf(html.planRadios)
  ELSE
    LET planNo == OrElse(html.p_plan_no, html.r_plan_no)
        academicSession ==
          OrElse(html.academic_session,
                 OrElse(Trim(SelectedText(html.sessionOptions)),
                        Trim(FirstText(html.sessionOptions))))
        examYear == OrElse(html.p_exam_yr, html.r_exam_yr)
        semester == OrElse(html.p_semester, html.r_semester)
        derives == /\ examYear = <<>> \/ semester = <<>>
                   /\ SessionMatch(academicSession) # <<>>
        parsedYear == IF derives THEN SessionYear(SessionMatch(academicSession))
                      ELSE examYear
        parsedSemester == IF derives THEN SessionSemester(SessionMatch(academicSession))
                          ELSE semester
    IN  IF academicSession # <<>> /\ parsedYear # <<>> /\ parsedSemester # <<>>
        THEN <<[planNo |-> planNo, academicSession |-> academicSession,
                examYear |-> parsedYear, semester |-> parsedSemester]>>
        ELSE <<>>

\* The academic sessions of the pages: of the form the parser reads; with
\* text around the form and a semester of two digits; without years; with a
\* short second year; a form without semester digit before the full form.
SessionInputs ==
  {<<"S", "e", "m", "e", "s", "t", "e", "r", " ", "1", " ", "A", "c", "a", "d", "e",
     "m", "i", "c", " ", "Y", "e", "a", "r", " ", "2", "0", "2", "5", "-", "2", "0",
     "2", "6">>,
   <<"A", "Y", " ", "S", "e", "m", "e", "s", "t", "e", "r", " ", "1", "2", " ", "A",
     "c", "a", "d", "e", "m", "i", "c", " ", "Y", "e", "a", "r", " ", "2", "0", "2",
     "4", "-", "2", "0", "2", "5", " ", "(", "U", "E", ")">>,
   <<"S", "e", "m", "e", "s", "t", "e", "r", " ", "2">>,
   <<"S", "e", "m", "e", "s", "t", "e", "r", " ", "1", " ", "A", "c", "a", "d", "e",
     "m", "i", "c", " ", "Y", "e", "a", "r", " ", "2", "0", "2", "5", "-", "2", "6">>,
   <<"S", "e", "m", "e", "s", "t", "e", "r", " ", " ", "A", "c", "a", "d", "e", "m",
     "i", "c", " ", "Y", "e", "a", "r", " ", "2", "0", "2", "5", "-", "2", "0", "2",
     "6", ",", " ", "S", "e", "m", "e", "s", "t", "e", "r", " ", "2", " ", "A", "c",
     "a", "d", "e", "m", "i", "c", " ", "Y", "e", "a", "r", " ", "2", "0", "2", "3",
     "-", "2", "0", "2", "4">>}

SessionOption(selected, text) == [selected |-> selected, text |-> text]

PlanRadio(value, parentText, labelText) ==
  [value |-> value, parentText |-> parentText, labelText |-> labelText]

ExamMetadataPages ==
  {[planRadios |-> planRadios, p_plan_no |-> plan[1], r_plan_no |-> plan[2],
    academic_session |-> hidden, sessionOptions |-> options,
    p_exam_yr |-> year[1], r_exam_yr |-> year[2],
    p_semester |-> sem[1], r_semester |-> sem[2]] :
     planRadios \in {<<>>, <<PlanRadio(<<"1", "1", "3">>, <<" ", "1", "1", "3", " ",
                                                            "S", "e", "m", " ", "1",
                                                            " ">>, <<>>),
                             PlanRadio(<<"1", "1", "4">>, <<>>, <<>>)>>},
     plan \in {<<<<>>, <<>>>>, <<<<>>, <<"1", "1", "3">>>>},
     hidden \in {<<>>} \cup SessionInputs,
     options \in {<<>>,
                  <<SessionOption(FALSE, <<"S", "e", "m", "e", "s", "t", "e", "r",
                                           " ", "2">>),
                    SessionOption(TRUE, <<" ", "S", "e", "m", "e", "s", "t", "e", "r",
                                          " ", "2", " ", "A", "c", "a", "d", "e", "m",
                                          "i", "c", " ", "Y", "e", "a", "r", " ", "2",
                                          "0", "2", "4", "-", "2", "0", "2", "5",
                                          " ">>)>>,
                  <<SessionOption(FALSE, <<"S", "e", "m", "e", "s", "t", "e", "r",
                                           " ", "1", " ", "A", "c", "a", "d", "e",
                                           "m", "i", "c", " ", "Y", "e", "a", "r",
                                           " ", "2", "0", "2", "5", "-", "2", "0",
                                           "2", "6">>)>>},
     year \in {<<<<>>, <<>>>>, <<<<"2", "0", "2", "5">>, <<>>>>, <<<<>>, <<"2", "0",
                                                                           "2",
                                                                           "4">>>>},
     sem \in {<<<<>>, <<>>>>, <<<<"1">>, <<>>>>, <<<<>>, <<"2">>>>}}

InitExamMetadata ==
  /\ InitDb
  /\ ExamScraperIdle
  /\ ScheduleWritersIdle
  /\ ConnectionIdle
  /\ MetadataIdle
  /\ OptionsIdle
  /\ ParserIdle
  /\ ScheduleParserIdle
  /\ ContentParserIdle
  /\ VacancyIdle
  /\ ParseNumberIdle
  /\ examMetaHtml \in ExamMetadataPages
  /\ examMetaPc = "idle"
  /\ examMetaResult = <<>>

ParseExamMetadataCall ==
  /\ examMetaPc = "idle"
  /\ examMetaPc' = "returned"
  /\ examMetaResult' = ParseExamMetadata(examMetaHtml)
  /\ UNCHANGED examMetaHtml
  /\ UNCHANGED idleInExamMetadata

NextExamMetadata == ParseExamMetadataCall

SpecExamMetadata == InitExamMetadata /\ [][NextExamMetadata]_vars

(***************************************************************************)
(* processMetadata(job) of workers/metadataScraper.js.                     *)
(*                                                                         *)
(* A Map is the sequence of its values in insertion order.  The option     *)
(* values of the forms begin with a year in digits, so that parseInt of a  *)
(* year is a number.                                                       *)
(***************************************************************************)
IsYear(text) == Len(text) = 4 /\ \A k \in 1..4 : text[k] \in Digits

\* \w
IsWordChar(c) == c \in Digits \cup {"_"} \cup DOMAIN UpperOf \cup DOMAIN LowerOf

\* parseAcadSem of utils/format.js: 2025_2 and 2025;2, then 2025 2, then the
\* first four characters and the last one.
ParseAcadSem(raw) ==
  IF /\ Len(raw) = 6 /\ IsYear(SubSeq(raw, 1, 4))
     /\ raw[5] \in {"_", ";"} /\ IsWordChar(raw[6])
  THEN [year |-> SubSeq(raw, 1, 4), semester |-> <<raw[6]>>]
  ELSE IF /\ Len(raw) >= 6 /\ IsYear(SubSeq(raw, 1, 4))
          /\ \A k \in 5..(Len(raw) - 1) : raw[k] \in WhiteSpace
          /\ IsWordChar(raw[Len(raw)])
  THEN [year |-> SubSeq(raw, 1, 4), semester |-> <<raw[Len(raw)]>>]
  ELSE [year |-> SubSeq(raw, 1, IF Len(raw) < 4 THEN Len(raw) ELSE 4),
        semester |-> IF raw = <<>> THEN <<>> ELSE <<raw[Len(raw)]>>]

\* toStandardAcadSem of utils/format.js
ToStandardAcadSem(year, semester) == year \o <<"_">> \o semester

\* String(n), of a number that is not negative
RECURSIVE NumberToString(_)
NumberToString(n) ==
  IF n < 10 THEN <<CHOOSE d \in Digits : DigitsToNat(<<d>>) = n>>
  ELSE NumberToString(n \div 10) \o NumberToString(n % 10)

\* processOpt: the entry, when its year and semester are new, and the
\* candidate.
ProcessOpt(merged, opt, source) ==
  LET year == ParseAcadSem(opt.value).year
      semester == ParseAcadSem(opt.value).semester
      stdValue == ToStandardAcadSem(year, semester)
  IN  [uniqueEntries |->
         IF \E i \in 1..Len(merged.uniqueEntries) :
              merged.uniqueEntries[i].value = stdValue
         THEN merged.uniqueEntries
         ELSE Append(merged.uniqueEntries,
                     [year |-> year, semester |-> semester, label |-> opt.label,
                      value |-> stdValue]),
       allScrapeCandidates |->
         Append(merged.allScrapeCandidates,
                [year |-> year, semester |-> semester, source |-> source,
                 value |-> stdValue])]

\* opts.forEach(opt => processOpt(opt, source))
RECURSIVE ProcessOpts(_, _, _)
ProcessOpts(merged, opts, source) ==
  IF opts = <<>> THEN merged
  ELSE ProcessOpts(ProcessOpt(merged, Head(opts), source), Tail(opts), source)

\* [...new Set(payload.map(p => parseInt(p.year, 10)))]
AllYears(payload) == {ParseInt(payload[i].year)[1] : i \in 1..Len(payload)}

\* .sort((a, b) => b - a)
RECURSIVE SortDescending(_)
SortDescending(years) ==
  IF years = {} THEN <<>>
  ELSE LET greatest == CHOOSE y \in years : \A z \in years : z <= y
       IN  <<greatest>> \o SortDescending(years \ {greatest})

\* Target years that are all the years found.
TargetYearsUnsliced(payload) == SortDescending(AllYears(payload))

\* allYears.slice(0, 2)
TargetYears(payload) ==
  LET allYears == SortDescending(AllYears(payload))
  IN  SubSeq(allYears, 1, IF Len(allYears) < 2 THEN Len(allYears) ELSE 2)

\* new Set(targetYears.map(String))
TargetYearsSet(payload) ==
  {NumberToString(TargetYears(payload)[i]) : i \in 1..Len(TargetYears(payload))}

Job(name, acadsem, studentType) ==
  [name |-> name,
   data |-> [acadsem |-> acadsem, studentType |-> studentType, availablePlans |-> <<>>],
   delay |-> 0]

\* The body of the loop over allScrapeCandidates, for one candidate.
PrepareJob(prepared, cand, targetYearsSet) ==
  IF cand.year \notin targetYearsSet THEN prepared
  ELSE
    [jobsToTrigger |->
       prepared.jobsToTrigger
         \o <<Job(IF cand.source = "schedule" THEN "scrape-schedule"
                  ELSE "scrape-content", cand.value, <<>>)>>
         \o (IF cand.semester = <<"1">> \/ cand.semester = <<"2">>
             THEN <<Job("scrape-exam", cand.value, <<"U", "E">>)>> ELSE <<>>),
     backfillCandidates |->
       IF \E i \in 1..Len(prepared.backfillCandidates) :
            prepared.backfillCandidates[i].key = cand.year \o <<"-">> \o cand.semester
       THEN prepared.backfillCandidates
       ELSE Append(prepared.backfillCandidates,
                   [key |-> cand.year \o <<"-">> \o cand.semester,
                    job |-> Job("scrape-backfill", cand.value, <<>>)])]

RECURSIVE PrepareJobs(_, _, _)
PrepareJobs(prepared, candidates, targetYearsSet) ==
  IF candidates = <<>> THEN prepared
  ELSE PrepareJobs(PrepareJob(prepared, Head(candidates), targetYearsSet),
                   Tail(candidates), targetYearsSet)

\* jobsToTrigger.forEach: the exam jobs dropped when no plan is available,
\* and given the plans otherwise; one job per name and acadsem.
RECURSIVE UniqueJobs(_, _, _)
UniqueJobs(unique, jobs, plans) ==
  IF jobs = <<>> THEN unique
  ELSE LET j == IF Head(jobs).name = "scrape-exam"
                THEN [Head(jobs) EXCEPT !.data.availablePlans = plans]
                ELSE Head(jobs)
       IN  IF j.name = "scrape-exam" /\ plans = <<>>
           THEN UniqueJobs(unique, Tail(jobs), plans)
           ELSE IF \E i \in 1..Len(unique) :
                     /\ unique[i].name = j.name
                     /\ unique[i].data.acadsem = j.data.acadsem
           THEN UniqueJobs([i \in 1..Len(unique) |->
                              IF /\ unique[i].name = j.name
                                 /\ unique[i].data.acadsem = j.data.acadsem
                              THEN j ELSE unique[i]],
                           Tail(jobs), plans)
           ELSE UniqueJobs(Append(unique, j), Tail(jobs), plans)

\* The acadsem options of the schedule form and of the content form.
ScheduleAcadsems ==
  {Option(Some(<<"2", "0", "2", "5", ";", "1">>), <<"2", "0", "2", "5", " ", "S", "e",
                                                    "m", " ", "1">>),
   Option(Some(<<"2", "0", "2", "4", ";", "2">>), <<"2", "0", "2", "4", " ", "S", "e",
                                                    "m", " ", "2">>),
   Option(Some(<<"2", "0", "2", "3", ";", "S">>), <<"2", "0", "2", "3", " ", "S", "p",
                                                    "e", "c", "i", "a", "l", " ", "T",
                                                    "e", "r", "m">>)}

ContentAcadsems ==
  {Option(Some(<<"2", "0", "2", "5", "_", "1">>), <<"A", "Y", "2", "0", "2", "5", " ",
                                                    "S", "e", "m", "e", "s", "t", "e",
                                                    "r", " ", "1">>),
   Option(Some(<<"2", "0", "2", "2", " ", " ", "2">>), <<"A", "Y", "2", "0", "2", "2",
                                                         " ", "S", "e", "m", "e", "s",
                                                         "t", "e", "r", " ", "2">>),
   Option(Some(<<"2", "0", "2", "1", "-", "T">>), <<"A", "Y", "2", "0", "2", "1", " ",
                                                    "T", "r", "i", "m", "e", "s", "t",
                                                    "e", "r">>)}

\* The pages fetchExamMetadata may answer with: two plans, or none.
ExamPlanPages ==
  {[planRadios |-> planRadios, p_plan_no |-> <<>>, r_plan_no |-> <<>>,
    academic_session |-> <<>>, sessionOptions |-> <<>>, p_exam_yr |-> <<>>,
    r_exam_yr |-> <<>>, p_semester |-> <<>>, r_semester |-> <<>>] :
     planRadios \in {<<>>, <<PlanRadio(<<"1", "1", "3">>, <<" ", "1", "1", "3", " ",
                                                            "S", "e", "m", " ", "1",
                                                            " ">>, <<>>),
                             PlanRadio(<<"1", "1", "4">>, <<>>, <<>>)>>}}

InitMetadata ==
  /\ InitDb
  /\ ExamScraperIdle
  /\ ScheduleWritersIdle
  /\ ConnectionIdle
  /\ ExamMetadataIdle
  /\ OptionsIdle
  /\ ParserIdle
  /\ ScheduleParserIdle
  /\ ContentParserIdle
  /\ VacancyIdle
  /\ ParseNumberIdle
  /\ metaJob \in
       {[triggerNext |-> triggerNext,
         scheduleHtml |-> <<Select("acadsem", scheduleOptions)>>,
         contentHtml |-> <<Select("acadsem", contentOptions)>>] :
          triggerNext \in BOOLEAN,
          scheduleOptions \in SeqsUpTo(ScheduleAcadsems, MaxOptions),
          contentOptions \in SeqsUpTo(ContentAcadsems, MaxOptions)}
  /\ metaPc = "merge"
  /\ uniqueEntries = <<>>
  /\ allScrapeCandidates = <<>>
  /\ jobsToTrigger = <<>>
  /\ backfillCandidates = <<>>
  /\ examPlansAvailable = <<>>
  /\ scrapeQueue = <<>>

\* Steps 2 and 3: the forms parsed, their options merged.
MetadataMerge ==
  /\ metaPc = "merge"
  /\ LET scheduleOpts == ParseScheduleOptions(metaJob.scheduleHtml)
         contentOpts == ParseContentOptions(metaJob.contentHtml)
         merged == ProcessOpts(ProcessOpts([uniqueEntries |-> <<>>,
                                            allScrapeCandidates |-> <<>>],
                                           scheduleOpts.acadsem, "schedule"),
                               contentOpts.acadsem, "content")
     IN  /\ uniqueEntries' = merged.uniqueEntries
         /\ allScrapeCandidates' = merged.allScrapeCandidates
  /\ metaPc' = "save"
  /\ UNCHANGED <<metaJob, jobsToTrigger, backfillCandidates, examPlansAvailable,
                 scrapeQueue>>
  /\ UNCHANGED idleInMetadata

\* A processMetadata that goes on when saveMetadata has thrown.
MetadataSaveSwallowingError ==
  /\ metaPc = "save"
  /\ IF uniqueEntries = <<>>
     THEN /\ metaPc' = "prepare"
          /\ UNCHANGED <<semester_metadata, now>>
     ELSE /\ now < MaxCalls
          /\ now' = now + 1
          /\ \E failAt \in 0..(Len(uniqueEntries) + 1) :
               /\ semester_metadata' =
                    Transaction(DB, MetaStatements(uniqueEntries), failAt, now + 1).meta
               /\ metaPc' = "prepare"
  /\ UNCHANGED <<course_content, course_schedule, exam_timetable, call, contentLast>>
  /\ UNCHANGED <<metaJob, uniqueEntries, allScrapeCandidates, jobsToTrigger,
                 backfillCandidates, examPlansAvailable, scrapeQueue>>
  /\ UNCHANGED <<parservars, schedvars, contentvars, vacancyvars, numbervars,
                 optionvars, exammetavars, connvars, racevars, scrapervars>>

\* Step 4: await saveMetadata(payload), which returns at once for an empty
\* payload and throws when a query of its transaction is rejected.
MetadataSave ==
  /\ metaPc = "save"
  /\ IF uniqueEntries = <<>>
     THEN /\ metaPc' = "prepare"
          /\ UNCHANGED <<semester_metadata, now>>
     ELSE /\ now < MaxCalls
          /\ now' = now + 1
          /\ \E failAt \in 0..(Len(uniqueEntries) + 1) :
               /\ semester_metadata' =
                    Transaction(DB, MetaStatements(uniqueEntries), failAt, now + 1).meta
               /\ metaPc' = IF failAt = 0 THEN "prepare" ELSE "threw"
  /\ UNCHANGED <<course_content, course_schedule, exam_timetable, call, contentLast>>
  /\ UNCHANGED <<metaJob, uniqueEntries, allScrapeCandidates, jobsToTrigger,
                 backfillCandidates, examPlansAvailable, scrapeQueue>>
  /\ UNCHANGED <<parservars, schedvars, contentvars, vacancyvars, numbervars,
                 optionvars, exammetavars, connvars, racevars, scrapervars>>

\* Steps 5 and 6: the target years, and the jobs of the candidates of those
\* years.
MetadataPrepareJobs ==
  /\ metaPc = "prepare"
  /\ LET prepared == PrepareJobs([jobsToTrigger |-> <<>>, backfillCandidates |-> <<>>],
                                 allScrapeCandidates, TargetYearsSet(uniqueEntries))
     IN  /\ jobsToTrigger' = prepared.jobsToTrigger
         /\ backfillCandidates' = prepared.backfillCandidates
  /\ metaPc' = "discover"
  /\ UNCHANGED <<metaJob, uniqueEntries, allScrapeCandidates, examPlansAvailable,
                 scrapeQueue>>
  /\ UNCHANGED idleInMetadata

\* Step 7, with triggerNext: the plans of the page fetched from WIS, or none
\* when fetchExamMetadata throws and the error is logged.
MetadataDiscoverPlans ==
  /\ metaPc = "discover"
  /\ metaJob.triggerNext
  /\ \/ \E examMetadataHtml \in ExamPlanPages :
          LET examPlans == ParseExamMetadata(examMetadataHtml) IN
          examPlansAvailable' = [i \in 1..Len(examPlans) |-> examPlans[i].planNo]
     \/ UNCHANGED examPlansAvailable
  /\ metaPc' = "trigger"
  /\ UNCHANGED <<metaJob, uniqueEntries, allScrapeCandidates, jobsToTrigger,
                 backfillCandidates, scrapeQueue>>
  /\ UNCHANGED idleInMetadata

\* Steps 7 and 8, without triggerNext: nothing is discovered, nothing added.
MetadataWithoutTrigger ==
  /\ metaPc = "discover"
  /\ ~metaJob.triggerNext
  /\ metaPc' = "done"
  /\ UNCHANGED <<metaJob, uniqueEntries, allScrapeCandidates, jobsToTrigger,
                 backfillCandidates, examPlansAvailable, scrapeQueue>>
  /\ UNCHANGED idleInMetadata

\* Step 8: addJob for every unique job, then for every backfill job, with
\* its delay.
MetadataTrigger ==
  /\ metaPc = "trigger"
  /\ scrapeQueue' =
       scrapeQueue \o UniqueJobs(<<>>, jobsToTrigger, examPlansAvailable)
         \o [i \in 1..Len(backfillCandidates) |->
               [backfillCandidates[i].job EXCEPT !.delay = 600000]]
  /\ metaPc' = "done"
  /\ UNCHANGED <<metaJob, uniqueEntries, allScrapeCandidates, jobsToTrigger,
                 backfillCandidates, examPlansAvailable>>
  /\ UNCHANGED idleInMetadata

NextMetadata ==
  \/ MetadataMerge \/ MetadataSave \/ MetadataPrepareJobs \/ MetadataDiscoverPlans
  \/ MetadataWithoutTrigger \/ MetadataTrigger

SpecMetadata == InitMetadata /\ [][NextMetadata]_vars

(***************************************************************************)
(* The connection of a batch write, query by query:                        *)
(*   if (!batch.length) return;                                            *)
(*   const client = await pool.connect();                                  *)
(*   try { BEGIN; statements; COMMIT }                                     *)
(*   catch (err) { await client.query('ROLLBACK'); throw err }             *)
(*   finally { client.release() }                                          *)
(* Every await may reject.  What the queries do to the tables is           *)
(* Transaction, above; here the tables stand still and the client is       *)
(* followed.                                                               *)
(***************************************************************************)
\* The writers, each with the numbers of queries its batches make between
\* BEGIN and COMMIT; 0 stands for the empty batch.
WriterQueries ==
  [saveMetadata |-> {Len(MetaStatements(b)) : b \in SeqsUpTo(MetaInputs, MaxBatch)},
   saveCourseContent |->
     {Len(ContentStatements(b)) : b \in SeqsUpTo(ContentInputs, MaxBatch)},
   saveCourseSchedule |->
     {IF b = <<>> THEN 0 ELSE Len(ScheduleStatements(b)) :
        b \in SeqsUpTo(ScheduleInputs, MaxBatch)},
   saveExamTimetable |->
     {Len(ExamStatements(b, AcademicSession, PlanNo)) : b \in ExamBatches}]

\* A catch block that releases the client itself, after the ROLLBACK, in
\* place of the finally block.
AfterRollbackWithoutFinally(rejected) == IF rejected THEN "threw" ELSE "finally"

\* Where the call goes after the ROLLBACK of the catch block, rejected or
\* not: to the finally block.
AfterRollback(rejected) == "finally"

InitConnection ==
  /\ InitDb
  /\ ExamScraperIdle
  /\ ScheduleWritersIdle
  /\ MetadataIdle
  /\ ExamMetadataIdle
  /\ OptionsIdle
  /\ ParserIdle
  /\ ScheduleParserIdle
  /\ ContentParserIdle
  /\ VacancyIdle
  /\ ParseNumberIdle
  /\ writer = [op |-> "none", queries |-> 0]
  /\ writerPc = "idle"
  /\ writerLeft = 0
  /\ writerAcquired = FALSE
  /\ writerReleases = 0
  /\ writerError = "none"
  /\ writerCalls = 0
  /\ poolHeld = 0

\* A writer is called: it returns at once for an empty batch.
WriterCall ==
  /\ writerPc \in {"idle", "returned", "threw"}
  /\ writerCalls < MaxCalls
  /\ writerCalls' = writerCalls + 1
  /\ \E op \in DOMAIN WriterQueries : \E queries \in WriterQueries[op] :
       /\ writer' = [op |-> op, queries |-> queries]
       /\ writerLeft' = queries
       /\ writerPc' = IF queries = 0 THEN "returned" ELSE "connect"
  /\ writerAcquired' = FALSE
  /\ writerReleases' = 0
  /\ writerError' = "none"
  /\ UNCHANGED poolHeld
  /\ UNCHANGED idleInConnection

\* const client = await pool.connect()
PoolConnect ==
  /\ writerPc = "connect"
  /\ \/ /\ poolHeld' = poolHeld + 1
        /\ writerAcquired' = TRUE
        /\ writerPc' = "begin"
        /\ UNCHANGED writerError
     \/ /\ writerError' = "connect"
        /\ writerPc' = "threw"
        /\ UNCHANGED <<poolHeld, writerAcquired>>
  /\ UNCHANGED <<writer, writerLeft, writerReleases, writerCalls>>
  /\ UNCHANGED idleInConnection

\* await client.query('BEGIN')
QueryBegin ==
  /\ writerPc = "begin"
  /\ \/ writerPc' = "statements" /\ UNCHANGED writerError
     \/ writerPc' = "rollback" /\ writerError' = "begin"
  /\ UNCHANGED <<writer, writerLeft, writerAcquired, writerReleases, writerCalls,
                 poolHeld>>
  /\ UNCHANGED idleInConnection

\* await client.query(...), in the loop over the batch
QueryStatement ==
  /\ writerPc = "statements"
  /\ writerLeft > 0
  /\ \/ /\ writerLeft' = writerLeft - 1
        /\ UNCHANGED <<writerPc, writerError>>
     \/ /\ writerPc' = "rollback"
        /\ writerError' = "statement"
        /\ UNCHANGED writerLeft
  /\ UNCHANGED <<writer, writerAcquired, writerReleases, writerCalls, poolHeld>>
  /\ UNCHANGED idleInConnection

\* await client.query('COMMIT')
QueryCommit ==
  /\ writerPc = "statements"
  /\ writerLeft = 0
  /\ \/ writerPc' = "finally" /\ UNCHANGED writerError
     \/ writerPc' = "rollback" /\ writerError' = "commit"
  /\ UNCHANGED <<writer, writerLeft, writerAcquired, writerReleases, writerCalls,
                 poolHeld>>
  /\ UNCHANGED idleInConnection

\* catch (err) { await client.query('ROLLBACK'); ...; throw err }
QueryRollback ==
  /\ writerPc = "rollback"
  /\ \E rejected \in BOOLEAN :
       /\ writerPc' = AfterRollback(rejected)
       /\ writerError' = IF rejected THEN "rollback" ELSE writerError
  /\ UNCHANGED <<writer, writerLeft, writerAcquired, writerReleases, writerCalls,
                 poolHeld>>
  /\ UNCHANGED idleInConnection

\* finally { client.release() }: then the call returns, or throws what the
\* catch block threw.
ClientRelease ==
  /\ writerPc = "finally"
  /\ poolHeld' = poolHeld - 1
  /\ writerReleases' = writerReleases + 1
  /\ writerPc' = IF writerError = "none" THEN "returned" ELSE "threw"
  /\ UNCHANGED <<writer, writerLeft, writerAcquired, writerError, writerCalls>>
  /\ UNCHANGED idleInConnection

NextConnection ==
  \/ WriterCall \/ PoolConnect \/ QueryBegin \/ QueryStatement \/ QueryCommit
  \/ QueryRollback \/ ClientRelease

SpecConnection == InitConnection /\ [][NextConnection]_vars

(***************************************************************************)
(* The callers of saveCourseSchedule, statement by statement.  The worker  *)
(* of queue/client.js runs one job at a time (createWorker, concurrency    *)
(* 1); processSchedule and processBackfill call saveCourseSchedule from a  *)
(* job, the handler of GET /schedule calls it from a request.  Each call   *)
(* has a connection of the pool of its own, and the statements of two      *)
(* calls interleave at every await.  The table answers as PostgreSQL does  *)
(* at its default isolation level, READ COMMITTED, which the pool of       *)
(* database/client.js leaves as it is: a statement sees the rows committed *)
(* before it started and the writes of its own transaction; a DELETE waits *)
(* for a transaction that has deleted one of its rows and then skips the   *)
(* rows that are gone; an INSERT waits for a transaction that has written  *)
(* a row of its key; the one of two transactions that wait for each other  *)
(* is ended with an error.                                                 *)
(***************************************************************************)
\* createWorker(processor, concurrency = 1)
WorkerConcurrency == 1

\* The course that all the callers save.
RaceCourse(sections) ==
  [course_code |-> "SC1", acadsem |-> "2025_1", sections |-> sections]

\* What parseSchedule may give a caller for the course at the time of its fetch.
RaceCourses ==
  {RaceCourse(<<SecLec, SecTut>>), RaceCourse(<<SecTut, SecLecAgain>>),
   RaceCourse(<<SecBarType>>)}

\* Between pool.connect() and the answer to COMMIT or ROLLBACK.
InFlight(w) == racePc[w] \in {"delete", "deleting", "insert", "commit"}

\* The rows of the course of c among the rows given.
StoredOfCourse(tbl, c) == tbl \ DeleteSchedule(tbl, c.course_code, c.acadsem)

\* The row the next INSERT of w sends.
NextInsertRow(w) == ScheduleRow(Head(raceLeft[w]), raceList[w][1], now)

\* The transactions a statement of w has to wait for.
WaitsFor(w) ==
  IF racePc[w] = "deleting"
  THEN {v \in ScheduleCallers \ {w} : InFlight(v) /\ raceSnap[w] \cap raceDeleted[v] # {}}
  ELSE IF racePc[w] = "insert"
  THEN {v \in ScheduleCallers \ {w} :
          /\ InFlight(v)
          /\ \E r \in raceInserted[v] \cup raceDeleted[v] :
               SchedulePK(r) = SchedulePK(NextInsertRow(w))}
  ELSE {}

\* A call that starts only when no other call is in flight.
ScheduleCallBeginExclusive(w) ==
  /\ racePc[w] = "waiting"
  /\ \A v \in ScheduleCallers : ~InFlight(v)
  /\ w = "scrape-backfill" => StoredOfCourse(course_schedule, RaceCourse(<<>>)) = {}
  /\ \E c \in RaceCourses :
       /\ raceList' = [raceList EXCEPT ![w] = Some(c)]
       /\ raceLeft' = [raceLeft EXCEPT ![w] = UniqueSections(c)]
  /\ racePc' = [racePc EXCEPT ![w] = "delete"]
  /\ raceOverlapped' = raceOverlapped
  /\ UNCHANGED <<course_schedule, raceSnap, raceDeleted, raceInserted>>
  /\ UNCHANGED idleInScheduleWriters

\* const client = await pool.connect(); await client.query('BEGIN').  A job
\* starts when the worker is free; processBackfill writes the course when
\* getCourseCodes has no row of it; the route starts with the request.
ScheduleCallBegin(w) ==
  /\ racePc[w] = "waiting"
  /\ w \in QueueJobs =>
       Cardinality({j \in QueueJobs : InFlight(j)}) < WorkerConcurrency
  /\ w = "scrape-backfill" => StoredOfCourse(course_schedule, RaceCourse(<<>>)) = {}
  /\ \E c \in RaceCourses :
       /\ raceList' = [raceList EXCEPT ![w] = Some(c)]
       /\ raceLeft' = [raceLeft EXCEPT ![w] = UniqueSections(c)]
  /\ racePc' = [racePc EXCEPT ![w] = "delete"]
  /\ raceOverlapped' =
       raceOverlapped \cup {{w, v} : v \in {u \in ScheduleCallers \ {w} : InFlight(u)}}
  /\ UNCHANGED <<course_schedule, raceSnap, raceDeleted, raceInserted>>
  /\ UNCHANGED idleInScheduleWriters

\* processBackfill finds the course among the codes of course_schedule and
\* fetches nothing for it.
BackfillSkip ==
  /\ racePc["scrape-backfill"] = "waiting"
  /\ Cardinality({j \in QueueJobs : InFlight(j)}) < WorkerConcurrency
  /\ StoredOfCourse(course_schedule, RaceCourse(<<>>)) # {}
  /\ racePc' = [racePc EXCEPT !["scrape-backfill"] = "skipped"]
  /\ UNCHANGED <<course_schedule, raceList, raceSnap, raceDeleted, raceInserted,
                 raceLeft, raceOverlapped>>
  /\ UNCHANGED idleInScheduleWriters

\* client.query(deleteSql, ...) is sent: the statement sees the committed
\* rows of the course.
ScheduleCallDeleteStart(w) ==
  /\ racePc[w] = "delete"
  /\ raceSnap' = [raceSnap EXCEPT ![w] = StoredOfCourse(course_schedule, raceList[w][1])]
  /\ racePc' = [racePc EXCEPT ![w] = "deleting"]
  /\ UNCHANGED <<course_schedule, raceList, raceDeleted, raceInserted, raceLeft,
                 raceOverlapped>>
  /\ UNCHANGED idleInScheduleWriters

\* The DELETE is answered: the rows it saw and that are still there are
\* deleted in the transaction of w.
ScheduleCallDeleteFinish(w) ==
  /\ racePc[w] = "deleting"
  /\ WaitsFor(w) = {}
  /\ raceDeleted' = [raceDeleted EXCEPT ![w] = raceSnap[w] \cap course_schedule]
  /\ racePc' = [racePc EXCEPT ![w] = IF raceLeft[w] = <<>> THEN "commit" ELSE "insert"]
  /\ UNCHANGED <<course_schedule, raceList, raceSnap, raceInserted, raceLeft,
                 raceOverlapped>>
  /\ UNCHANGED idleInScheduleWriters

\* client.query(insertSql, ...) for the next unique section: ON CONFLICT DO
\* NOTHING when a row of the key is there for the transaction.
ScheduleCallInsert(w) ==
  /\ racePc[w] = "insert"
  /\ WaitsFor(w) = {}
  /\ raceInserted' =
       [raceInserted EXCEPT ![w] =
          InsertSchedule((course_schedule \ raceDeleted[w]) \cup raceInserted[w],
                         NextInsertRow(w))
            \ (course_schedule \ raceDeleted[w])]
  /\ raceLeft' = [raceLeft EXCEPT ![w] = Tail(@)]
  /\ racePc' = [racePc EXCEPT ![w] = IF Len(raceLeft[w]) = 1 THEN "commit" ELSE "insert"]
  /\ UNCHANGED <<course_schedule, raceList, raceSnap, raceDeleted, raceOverlapped>>
  /\ UNCHANGED idleInScheduleWriters

\* client.query('COMMIT'): the writes of the transaction are in the table.
ScheduleCallCommit(w) ==
  /\ racePc[w] = "commit"
  /\ course_schedule' = (course_schedule \ raceDeleted[w]) \cup raceInserted[w]
  /\ raceDeleted' = [raceDeleted EXCEPT ![w] = {}]
  /\ raceInserted' = [raceInserted EXCEPT ![w] = {}]
  /\ racePc' = [racePc EXCEPT ![w] = "done"]
  /\ UNCHANGED <<raceList, raceSnap, raceLeft, raceOverlapped>>
  /\ UNCHANGED idleInScheduleWriters

\* w waits for a transaction that waits for w, at once or by way of the third.
Deadlocked(w) ==
  \E v \in WaitsFor(w) :
    \/ w \in WaitsFor(v)
    \/ \E u \in WaitsFor(v) : w \in WaitsFor(u)

\* The statement of w is rejected as the victim of a deadlock: catch (err),
\* ROLLBACK, throw err.
ScheduleCallDeadlock(w) ==
  /\ Deadlocked(w)
  /\ raceDeleted' = [raceDeleted EXCEPT ![w] = {}]
  /\ raceInserted' = [raceInserted EXCEPT ![w] = {}]
  /\ racePc' = [racePc EXCEPT ![w] = "threw"]
  /\ UNCHANGED <<course_schedule, raceList, raceSnap, raceLeft, raceOverlapped>>
  /\ UNCHANGED idleInScheduleWriters

InitScheduleWriters ==
  /\ InitDb
  /\ ExamScraperIdle
  /\ ConnectionIdle
  /\ MetadataIdle
  /\ ExamMetadataIdle
  /\ OptionsIdle
  /\ ParserIdle
  /\ ScheduleParserIdle
  /\ ContentParserIdle
  /\ VacancyIdle
  /\ ParseNumberIdle
  /\ racePc = [w \in ScheduleCallers |-> "waiting"]
  /\ raceList = [w \in ScheduleCallers |-> Null]
  /\ raceSnap = [w \in ScheduleCallers |-> {}]
  /\ raceDeleted = [w \in ScheduleCallers |-> {}]
  /\ raceInserted = [w \in ScheduleCallers |-> {}]
  /\ raceLeft = [w \in ScheduleCallers |-> <<>>]
  /\ raceOverlapped = {}

NextScheduleWriters ==
  \/ \E w \in ScheduleCallers : ScheduleCallBegin(w)
  \/ BackfillSkip
  \/ \E w \in ScheduleCallers : ScheduleCallDeleteStart(w)
  \/ \E w \in ScheduleCallers : ScheduleCallDeleteFinish(w)
  \/ \E w \in ScheduleCallers : ScheduleCallInsert(w)
  \/ \E w \in ScheduleCallers : ScheduleCallCommit(w)
  \/ \E w \in ScheduleCallers : ScheduleCallDeadlock(w)

SpecScheduleWriters == InitScheduleWriters /\ [][NextScheduleWriters]_vars

(***************************************************************************)
(* examScraper(job) of workers/examScraper.js: the plans to try, the loop  *)
(* over them, the save of what they gave.                                  *)
(***************************************************************************)
\* A page without any of the fields parseExamMetadata looks for.
BlankPlanPage ==
  [planRadios |-> <<>>, p_plan_no |-> <<>>, r_plan_no |-> <<>>,
   academic_session |-> <<>>, sessionOptions |-> <<>>, p_exam_yr |-> <<>>,
   r_exam_yr |-> <<>>, p_semester |-> <<>>, r_semester |-> <<>>]

\* The plan selection page, with its two radio buttons.
PlanSelectionPage ==
  [BlankPlanPage EXCEPT !.planRadios = <<PlanRadio(<<"1", "1", "3">>, <<" ", "1", "1",
                                                                        "3", " ", "S",
                                                                        "e", "m", " ",
                                                                        "1",
                                                                        " ">>, <<>>),
                                         PlanRadio(<<"1", "1", "4">>, <<>>, <<>>)>>]

\* What fetchExamPlanDetails may answer with for a plan: the page of a plan
\* of semester 1 of 2025-2026, the page of a plan of semester 2 of 2024-2025,
\* the plan selection page again, a page without fields.
PlanDetailPages ==
  {[BlankPlanPage EXCEPT !.r_plan_no = <<"1", "1", "3">>,
                         !.academic_session = <<"S", "e", "m", "e", "s", "t", "e",
                                                "r", " ", "1", " ", "A", "c", "a",
                                                "d", "e", "m", "i", "c", " ", "Y",
                                                "e", "a", "r", " ", "2", "0", "2",
                                                "5", "-", "2", "0", "2", "6">>],
   [BlankPlanPage EXCEPT !.r_plan_no = <<"1", "1", "4">>,
                         !.academic_session = <<"S", "e", "m", "e", "s", "t", "e",
                                                "r", " ", "2", " ", "A", "c", "a",
                                                "d", "e", "m", "i", "c", " ", "Y",
                                                "e", "a", "r", " ", "2", "0", "2",
                                                "4", "-", "2", "0", "2", "5">>,
                         !.p_exam_yr = <<"2", "0", "2", "4">>, !.p_semester = <<"2">>],
   PlanSelectionPage,
   BlankPlanPage}

\* The course codes parseExamDetails may find on the detail page of a plan.
DetailCodes == {<<>>, <<<<"S", "C", "1">>>>, <<<<"S", "C", "1">>, <<"S", "C", "2">>>>}

\* parseExamDetails(detailsHtml, acadsem, studentType): every record carries
\* the acadsem and the student type it is called with.
ExamsOf(codes, acadsem, studentType) ==
  [i \in 1..Len(codes) |->
     [course_code |-> codes[i], acadsem |-> acadsem, student_type |-> studentType]]

\* planInfo.examYear && planInfo.semester
HasYearAndSemester(planInfo) ==
  /\ "examYear" \in DOMAIN planInfo
  /\ planInfo.examYear # <<>>
  /\ planInfo.semester # <<>>

\* The body of the loop over plansToTry, for plan ix: planDetails is what
\* parseExamMetadata gave for the page of the plan (nothing when the fetch
\* threw), codes the course codes of its detail page (Null when the fetch or
\* the parse threw).
TryPlan(acc, ix, planDetails, codes, job) ==
  IF planDetails = <<>> THEN acc
  ELSE LET planInfo == planDetails[1] IN
       IF /\ HasYearAndSemester(planInfo)
          /\ ToStandardAcadSem(planInfo.examYear, planInfo.semester) # job.acadsem
       THEN acc
       ELSE IF codes = Null \/ codes = Some(<<>>) THEN acc
       ELSE [allExams |-> acc.allExams \o ExamsOf(codes[1], job.acadsem, job.studentType),
             allExamsPlan |-> acc.allExamsPlan \o [i \in 1..Len(codes[1]) |-> ix],
             successfulPlan |-> Some(planInfo)]

\* plansToTry.join(',')
RECURSIVE JoinPlans(_)
JoinPlans(plans) ==
  IF plans = <<>> THEN <<>>
  ELSE IF Len(plans) = 1 THEN plans[1]
  ELSE plans[1] \o <<",">> \o JoinPlans(Tail(plans))

\* successfulPlan?.academicSession || `Exams for ${acadsem}`
SessionArgument(plan, acadsem) ==
  IF /\ plan # Null
     /\ "academicSession" \in DOMAIN plan[1]
     /\ plan[1].academicSession # <<>>
  THEN plan[1].academicSession
  ELSE <<"E", "x", "a", "m", "s", " ", "f", "o", "r", " ">> \o acadsem

InitExamScraper ==
  /\ InitDb
  /\ ScheduleWritersIdle
  /\ ConnectionIdle
  /\ MetadataIdle
  /\ ExamMetadataIdle
  /\ OptionsIdle
  /\ ParserIdle
  /\ ScheduleParserIdle
  /\ ContentParserIdle
  /\ VacancyIdle
  /\ ParseNumberIdle
  /\ scraperJob \in
       {[acadsem |-> <<"2", "0", "2", "5", "_", "1">>, studentType |-> studentType,
         availablePlans |-> availablePlans, metadataHtml |-> metadataHtml] :
          studentType \in StudentTypes,
          availablePlans \in {<<>>, <<<<"1", "1", "3">>, <<"1", "1", "4">>>>},
          metadataHtml \in {BlankPlanPage, PlanSelectionPage}}
  /\ scraperPc = "plans"
  /\ plansToTry = <<>>
  /\ scraperPlanIx = 0
  /\ planDetailsSeen = <<>>
  /\ allExams = <<>>
  /\ allExamsPlan = <<>>
  /\ successfulPlan = Null
  /\ scraperSaved = Null

\* plansToTry: the plans of the job, or those of the page of WIS when the job
\* has none; without plans the scraper returns, and it throws when the fetch
\* of the page does.
ScraperPlans ==
  /\ scraperPc = "plans"
  /\ \/ /\ plansToTry' =
             IF scraperJob.availablePlans # <<>> THEN scraperJob.availablePlans
             ELSE LET examPlans == ParseExamMetadata(scraperJob.metadataHtml)
                  IN  [i \in 1..Len(examPlans) |-> examPlans[i].planNo]
        /\ scraperPc' = IF plansToTry' = <<>> THEN "returned" ELSE "loop"
     \/ /\ scraperJob.availablePlans = <<>>
        /\ scraperPc' = "threw"
        /\ UNCHANGED plansToTry
  /\ UNCHANGED <<scraperJob, scraperPlanIx, planDetailsSeen, allExams, allExamsPlan,
                 successfulPlan, scraperSaved>>
  /\ UNCHANGED idleInExamScraper

\* for (const planNo of plansToTry): the next plan, with what WIS answers.
ScraperPlan ==
  /\ scraperPc = "loop"
  /\ scraperPlanIx < Len(plansToTry)
  /\ scraperPlanIx' = scraperPlanIx + 1
  /\ \E planDetails \in {<<>>} \cup {ParseExamMetadata(p) : p \in PlanDetailPages},
        codes \in {Null} \cup {Some(c) : c \in DetailCodes} :
       LET after == TryPlan([allExams |-> allExams, allExamsPlan |-> allExamsPlan,
                             successfulPlan |-> successfulPlan],
                            scraperPlanIx + 1, planDetails, codes, scraperJob)
       IN  /\ planDetailsSeen' = Append(planDetailsSeen, planDetails)
           /\ allExams' = after.allExams
           /\ allExamsPlan' = after.allExamsPlan
           /\ successfulPlan' = after.successfulPlan
  /\ UNCHANGED <<scraperJob, scraperPc, plansToTry, scraperSaved>>
  /\ UNCHANGED idleInExamScraper

\* if (allExams.length === 0) return { success: true, count: 0 }
ScraperNoExams ==
  /\ scraperPc = "loop"
  /\ scraperPlanIx = Len(plansToTry)
  /\ allExams = <<>>
  /\ scraperPc' = "returned"
  /\ UNCHANGED <<scraperJob, plansToTry, scraperPlanIx, planDetailsSeen, allExams,
                 allExamsPlan, successfulPlan, scraperSaved>>
  /\ UNCHANGED idleInExamScraper

\* await saveExamTimetable(allExams, ..., plansToTry.join(',')): the records
\* are stored, or the call throws and none is.
ScraperSave ==
  /\ scraperPc = "loop"
  /\ scraperPlanIx = Len(plansToTry)
  /\ allExams # <<>>
  /\ \/ /\ scraperSaved' =
             Some([exams |-> allExams,
                   academicSession |-> SessionArgument(successfulPlan,
                                                       scraperJob.acadsem),
                   planNo |-> JoinPlans(plansToTry)])
        /\ scraperPc' = "returned"
     \/ /\ scraperPc' = "threw"
        /\ UNCHANGED scraperSaved
  /\ UNCHANGED <<scraperJob, plansToTry, scraperPlanIx, planDetailsSeen, allExams,
                 allExamsPlan, successfulPlan>>
  /\ UNCHANGED idleInExamScraper

NextExamScraper == ScraperPlans \/ ScraperPlan \/ ScraperNoExams \/ ScraperSave

SpecExamScraper == InitExamScraper /\ [][NextExamScraper]_vars

(***************************************************************************)
(* Properties of the repository layer.                                     *)
(***************************************************************************)
Committed(op) == call.op = op /\ call.outcome = "committed"

ScheduleParent(r) == <<r.course_code, r.acadsem>>

\* C1: a batch write in which a query after BEGIN fails throws, and leaves
\* all four tables exactly as they were before the call: nothing of the
\* batch's prefix stays applied, not even a schedule DELETE already executed.
C1_FailedBatchLeavesNoTrace ==
  call.failAt > 0 => (call.outcome = "threw" /\ DB = call.pre)

\* C1 witness: a schedule write failed after the DELETE of its first course had
\* run inside the transaction, and that course had stored sections to delete.
C1_Witness ==
  /\ call.op = "saveCourseSchedule"
  /\ call.outcome = "threw"
  /\ call.failAt > 1
  /\ \E r \in call.pre.schedule : ScheduleParent(r) = ScheduleParent(call.batch[1])

\* The composite key a section of course c is stored under.
SectionPK(s, c) == <<s.index, c.course_code, c.acadsem, s.type, s.day, s.time, s.venue>>

StoredPKs(tbl, parent) == {SchedulePK(r) : r \in {x \in tbl : ScheduleParent(x) = parent}}

\* C2 as claimed, read for a batch whose courses have distinct (course_code,
\* acadsem): after a committed saveCourseSchedule, for every course c of the
\* batch the stored sections of c's (course_code, acadsem) are exactly the
\* distinct composite keys of c.sections.
C2_AsClaimed ==
  (/\ Committed("saveCourseSchedule")
   /\ \A i, j \in 1..Len(call.batch) :
        i # j => ScheduleParent(call.batch[i]) # ScheduleParent(call.batch[j]))
    => \A i \in 1..Len(call.batch) :
         LET c == call.batch[i]
         IN  StoredPKs(course_schedule, ScheduleParent(c)) =
               {SectionPK(s, c) : s \in SeqToSet(c.sections)}

\* C3 as claimed: saving the graduate scrape (the rows of examScraper run with
\* studentType '') overwrites no row the undergraduate scrape stored, and the
\* graduate rows are stored beside them, under a student_type of their own.
C3_AsClaimed ==
  (Committed("saveExamTimetable") /\ \A i \in 1..Len(call.batch) : call.batch[i].student_type = "")
    => /\ \A r \in call.pre.exam : r.student_type = "UE" => r \in exam_timetable
       /\ \A i \in 1..Len(call.batch) :
            \E r \in exam_timetable :
              /\ r.course_code = call.batch[i].course_code
              /\ r.acadsem = call.batch[i].acadsem
              /\ r.student_type # "UE"

\* C4: a committed batch write changes no row whose key is not in the batch:
\* the other three tables are as before; content and metadata rows of absent
\* keys are neither deleted nor modified; schedule sections of an absent
\* (course_code, acadsem) are neither deleted nor inserted.
C4_AbsentKeysUntouched ==
  /\ Committed("saveCourseContent") =>
       /\ {r \in course_content : ContentKey(r) \notin KeysOf(call.batch, ContentKey)} =
          {r \in call.pre.content : ContentKey(r) \notin KeysOf(call.batch, ContentKey)}
       /\ DB = [call.pre EXCEPT !.content = course_content]
  /\ Committed("saveMetadata") =>
       /\ {r \in semester_metadata : MetaKey(r) \notin KeysOf(call.batch, MetaKey)} =
          {r \in call.pre.meta : MetaKey(r) \notin KeysOf(call.batch, MetaKey)}
       /\ DB = [call.pre EXCEPT !.meta = semester_metadata]
  /\ Committed("saveCourseSchedule") =>
       /\ {r \in course_schedule : ScheduleParent(r) \notin KeysOf(call.batch, ScheduleParent)} =
          {r \in call.pre.schedule : ScheduleParent(r) \notin KeysOf(call.batch, ScheduleParent)}
       /\ DB = [call.pre EXCEPT !.schedule = course_schedule]

\* C4 witness: a committed schedule refresh while sections of another
\* (course_code, acadsem) and content rows were stored.
C4_Witness ==
  /\ Committed("saveCourseSchedule")
  /\ \E r \in call.pre.schedule : ScheduleParent(r) \notin KeysOf(call.batch, ScheduleParent)
  /\ \E r \in call.pre.schedule : ScheduleParent(r) \in KeysOf(call.batch, ScheduleParent)

\* The columns of a content row that come from the scraped record.
ContentFields(r) ==
  [course_code |-> r.course_code, acadsem |-> r.acadsem, title |-> r.title, au |-> r.au,
   description |-> r.description, prerequisites |-> r.prerequisites,
   mutual_exclusions |-> r.mutual_exclusions, department_code |-> r.department_code,
   not_available_to_programme |-> r.not_available_to_programme,
   not_available_to_all_programme_with |-> r.not_available_to_all_programme_with,
   not_available_as_bde_ue_to_programme |-> r.not_available_as_bde_ue_to_programme,
   is_unrestricted_elective |-> r.is_unrestricted_elective,
   is_broadening_deepening_elective |-> r.is_broadening_deepening_elective,
   grade_type |-> r.grade_type]

\* C5: whatever calls were made, committed or rolled back, course_content has
\* at most one row per (course_code, acadsem), a key has a row exactly when a
\* committed batch held it, and the row's fields are those of the last record
\* with that key in the most recent committed batch that held the key.
C5_OneRowPerKeyFromLastCommit ==
  /\ \A r1, r2 \in course_content : ContentKey(r1) = ContentKey(r2) => r1 = r2
  /\ \A r \in course_content : contentLast[ContentKey(r)] = Some(ContentFields(r))
  /\ \A k \in ContentKeys :
       contentLast[k] # Null => \E r \in course_content : ContentKey(r) = k

\* C5 witness: a content batch was rolled back after its first upsert had run
\* on a key that is stored with other fields, from an earlier committed batch.
C5_Witness ==
  /\ call.op = "saveCourseContent"
  /\ call.outcome = "threw"
  /\ call.failAt > 1
  /\ \E r \in course_content :
       /\ ContentKey(r) = ContentKey(call.batch[1])
       /\ ContentFields(r) # call.batch[1]

\* C6 as claimed: after a committed saveExamTimetable every (course_code,
\* acadsem, student_type) of the batch has exactly one row, carrying the fields
\* of the (last) incoming record of that key, '' stored as NULL, exam_type
\* included.
C6_AsClaimed ==
  Committed("saveExamTimetable") =>
    \A k \in KeysOf(call.batch, ExamKey) :
      LET e == LastWithKey(call.batch, ExamKey, k)
          rows == {r \in exam_timetable : ExamKey(r) = k}
      IN  /\ Cardinality(rows) = 1
          /\ \A r \in rows :
               /\ r.exam_type = OptOrNull(e.exam_type)
               /\ r.course_title = OrNull(e.course_title)
               /\ r.exam_date = OrNull(e.exam_date)
               /\ r.exam_time = OrNull(e.exam_time)
               /\ r.exam_duration = OrNull(e.exam_duration)
               /\ r.venue = OrNull(e.venue)
               /\ r.seat_no = OrNull(e.seat_no)

\* A content table without its updated_at column.
WithoutUpdatedAt(tbl) ==
  {[fields |-> ContentFields(r), created_at |-> r.created_at] : r \in tbl}

\* C7: saveCourseContent run a second time with the batch it has just
\* committed leaves the same rows with the same values; only updated_at moves.
C7_ContentIdempotent ==
  (Committed("saveCourseContent") /\ call.repeated) =>
    /\ WithoutUpdatedAt(course_content) = WithoutUpdatedAt(call.pre.content)
    /\ \A r \in course_content :
         ContentKey(r) \in KeysOf(call.batch, ContentKey) => r.updated_at = now

\* C7 witness: the second of two committed runs of one content batch.
C7_Witness ==
  /\ Committed("saveCourseContent")
  /\ call.repeated
  /\ course_content # call.pre.content

\* The columns of a schedule row that come from the scraped section.
SectionFields(r) ==
  [index |-> r.index, course_code |-> r.course_code, acadsem |-> r.acadsem,
   type |-> r.type, group |-> r.group, day |-> r.day, time |-> r.time,
   venue |-> r.venue, remark |-> r.remark]

\* C8: saveCourseSchedule run a second time with the batch it has just
\* committed ends with the same set of sections as the first run, and no
\* composite key is stored twice, also when the batch repeats sections.
C8_ScheduleIdempotent ==
  (Committed("saveCourseSchedule") /\ call.repeated) =>
    /\ {SectionFields(r) : r \in course_schedule} =
       {SectionFields(r) : r \in call.pre.schedule}
    /\ \A r1, r2 \in course_schedule : SchedulePK(r1) = SchedulePK(r2) => r1 = r2

\* C8 witness: the second of two committed runs of a schedule batch one of
\* whose courses lists the same composite key twice.
C8_Witness ==
  /\ Committed("saveCourseSchedule")
  /\ call.repeated
  /\ \E i \in 1..Len(call.batch) :
       LET c == call.batch[i]
       IN  \E j, k \in 1..Len(c.sections) :
             j < k /\ SectionPK(c.sections[j], c) = SectionPK(c.sections[k], c)

(***************************************************************************)
(* Properties of the exam parser.                                          *)
(***************************************************************************)
\* The row the i-th pushed record came from, and that row's course code as
\* the table gives it: the fourth cell of a row of five cells or more, else
\* the cell under the header that names the code.
OriginRow(i) == DataRows(page.tables[origin[i][1]])[origin[i][2]]

OriginCode(i) ==
  LET cells == Cells(OriginRow(i)) IN
  IF Len(cells) >= 5 THEN cells[4]
  ELSE MapByHeaders(Headers(page.tables[origin[i][1]]), cells).courseCode

SuffixChars == {"*", "+", "#"}

HasSuffix(code) == code # <<>> /\ code[Len(code)] \in SuffixChars

WithoutLast(code) == SubSeq(code, 1, Len(code) - 1)

\* C9: on a page without the legend every record pushed has exam_type null,
\* whatever its row's course code ends with and whatever a type column says,
\* and its course_code is the row's code without its one trailing '*', '+'
\* or '#' (upper-cased).
C9_NoLegendNullTypeSuffixStripped ==
  ~hasExamTypeLegend =>
    \A i \in 1..Len(parsed) :
      /\ parsed[i].exam_type = Null
      /\ parsed[i].course_code =
           ToUpperCase(IF HasSuffix(OriginCode(i))
                       THEN WithoutLast(OriginCode(i))
                       ELSE OriginCode(i))

\* A page without the legend has been parsed to its end; records came from a
\* row ending in '*', from a row ending in '+' under a type column that says
\* 'Open Book', and from a row without suffix.
C9_Witness ==
  /\ pc = "done"
  /\ ~hasExamTypeLegend
  /\ Len(parsed) = 2
  /\ \E i \in 1..Len(parsed) : EndsWith(OriginCode(i), "+") /\ Len(Cells(OriginRow(i))) = 4
  /\ \E i \in 1..Len(parsed) : EndsWith(OriginCode(i), "*")

\* C10: on a page with the legend every record pushed has its exam type by
\* the last character of its row's course code: '*' gives 'Restricted Open
\* Book', '+' or '#' gives 'Open Book', both with that character cut off the
\* course_code; any other gives 'Closed Book' and the whole code.
C10_LegendTypeByLastCharacter ==
  hasExamTypeLegend =>
    \A i \in 1..Len(parsed) :
      /\ EndsWith(OriginCode(i), "*") =>
            /\ parsed[i].exam_type = Some(<<"R", "e", "s", "t", "r", "i", "c", "t",
                                            "e", "d", " ", "O", "p", "e", "n", " ",
                                            "B", "o", "o", "k">>)
            /\ parsed[i].course_code = ToUpperCase(WithoutLast(OriginCode(i)))
      /\ (EndsWith(OriginCode(i), "+") \/ EndsWith(OriginCode(i), "#")) =>
            /\ parsed[i].exam_type = Some(<<"O", "p", "e", "n", " ", "B", "o", "o",
                                            "k">>)
            /\ parsed[i].course_code = ToUpperCase(WithoutLast(OriginCode(i)))
      /\ ~HasSuffix(OriginCode(i)) =>
            /\ parsed[i].exam_type = Some(<<"C", "l", "o", "s", "e", "d", " ", "B",
                                            "o", "o", "k">>)
            /\ parsed[i].course_code = ToUpperCase(OriginCode(i))

\* A page with the legend has been parsed to its end; records came from a
\* row ending in '*' and from a row without suffix.
C10_Witness ==
  /\ pc = "done"
  /\ hasExamTypeLegend
  /\ Len(parsed) = 2
  /\ \E i \in 1..Len(parsed) : EndsWith(OriginCode(i), "*")
  /\ \E i \in 1..Len(parsed) : ~HasSuffix(OriginCode(i))

\* The text of the cell of the i-th record's row that stands under a header
\* naming the exam type ('type' or 'mode'); null when the row has none.
OriginTypeCell(i) ==
  MapByHeaders(Headers(page.tables[origin[i][1]]), Cells(OriginRow(i))).examType

ExamTypeNames ==
  {<<"R", "e", "s", "t", "r", "i", "c", "t", "e", "d", " ", "O", "p", "e", "n", " ",
     "B", "o", "o", "k">>,
   <<"O", "p", "e", "n", " ", "B", "o", "o", "k">>, <<"C", "l", "o", "s", "e", "d",
                                                      " ", "B", "o", "o", "k">>}

\* C11: whatever the layout of the table, a pushed record's exam_type is null
\* on a page without the legend and one of the three names on a page with it;
\* it is never the empty string, and it is never the text of the row's type
\* cell unless the suffix of the course code gives that very name.
C11_ExamTypeTriState ==
  \A i \in 1..Len(parsed) :
    /\ ~hasExamTypeLegend => parsed[i].exam_type = Null
    /\ hasExamTypeLegend =>
         \E name \in ExamTypeNames : parsed[i].exam_type = Some(name)
    /\ parsed[i].exam_type # Some(<<>>)
    /\ (OriginTypeCell(i) # Null /\ OriginTypeCell(i)[1] \notin ExamTypeNames) =>
         parsed[i].exam_type # OriginTypeCell(i)

\* A page with the legend has been parsed; one record came from a row of four
\* cells mapped by header text whose type cell says 'MCQ', one from a row
\* whose type cell says 'Open Book'.
C11_Witness ==
  /\ pc = "done"
  /\ hasExamTypeLegend
  /\ Len(parsed) = 2
  /\ \E i \in 1..Len(parsed) :
       /\ Len(Cells(OriginRow(i))) = 4
       /\ OriginTypeCell(i) = Some(<<"M", "C", "Q">>)
  /\ \E i \in 1..Len(parsed) :
       OriginTypeCell(i) = Some(<<"O", "p", "e", "n", " ", "B", "o", "o", "k">>)

(***************************************************************************)
(* Properties of the schedule parser.                                      *)
(***************************************************************************)
\* The data rows of the session table the j-th pushed course was closed by.
SessionRowsOf(j) == DataRows(schedHtml[schedOrigin[j]])

\* The index cell of a row: its first td, cleaned; a row without td has none.
HasIndexCell(row) == Len(TdCells(row)) > 0

IndexCellText(row) == Clean(TdCells(row)[1].text)

\* The rows at or before row k of the table that have a non-blank index cell.
IndexedUpTo(rows, k) ==
  {n \in 1..k : HasIndexCell(rows[n]) /\ IndexCellText(rows[n]) # <<>>}

Greatest(S) == CHOOSE n \in S : \A other \in S : other <= n

\* The rows that give a section: those with cells at or after the first row
\* with a non-blank index cell.
SectionRows(rows) ==
  {k \in 1..Len(rows) : HasIndexCell(rows[k]) /\ IndexedUpTo(rows, k) # {}}

\* The n-th smallest member of a set of numbers.
NthOf(S, n) == CHOOSE k \in S : Cardinality({other \in S : other < k}) = n - 1

\* C12: the sections of every pushed course are, in order, the rows of its
\* own session table that stand at or after the first row with a non-blank
\* index cell, and each has the index of the nearest row at or before it with
\* a non-blank index cell in that table; rows before the first such row give
\* no section, whatever an earlier table's last index was.
C12_SectionIndexFromNearestRowAbove ==
  \A j \in 1..Len(schedCourses) :
    /\ Len(schedCourses[j].sections) = Cardinality(SectionRows(SessionRowsOf(j)))
    /\ \A n \in 1..Len(schedCourses[j].sections) :
         /\ schedCourses[j].sections[n].index =
              IndexCellText(SessionRowsOf(j)[
                Greatest(IndexedUpTo(SessionRowsOf(j),
                                     NthOf(SectionRows(SessionRowsOf(j)), n)))])
         /\ schedCourses[j].sections[n].type =
              CleanCell(TdCells(SessionRowsOf(j)[NthOf(SectionRows(SessionRowsOf(j)), n)]), 1)

\* Two courses were pushed.  The table of the first has a row without index,
\* then a row with one, then a row without: two sections of one index.  The
\* table of the second opens with a row without index and gives one section.
C12_Witness ==
  /\ schedTableNo = Len(schedHtml)
  /\ Len(schedCourses) = 2
  /\ Len(SessionRowsOf(1)) = 3
  /\ SectionRows(SessionRowsOf(1)) = {2, 3}
  /\ IndexedUpTo(SessionRowsOf(1), 3) = {2}
  /\ Len(schedCourses[1].sections) = 2
  /\ schedCourses[1].sections[1].index = schedCourses[1].sections[2].index
  /\ Len(schedCourses[2].sections) = 1
  /\ schedCourses[2].sections[1].index = <<"2", "0", "0", "0", "1">>

(***************************************************************************)
(* Properties of the content parser.                                       *)
(***************************************************************************)
\* The row that opened the i-th course of the walk.
ContentOriginRow(i) == contentHtml[contentOrigin[i][1]][contentOrigin[i][2]]

\* The AU text of the i-th course: the cleaned text of the third cell.
OriginAuText(i) == CleanCell(TdCells(ContentOriginRow(i)), 2)

\* The AU text without its unit.
WithoutUnit(auText) == Trim(RemoveFirst(auText, <<"A", "U">>))

\* Does the text begin with a number: a sign or none, then a digit, or a
\* point and a digit?
BeginsWithNumber(text) ==
  LET unsigned == IF text # <<>> /\ text[1] \in {"+", "-"} THEN Tail(text) ELSE text
  IN  /\ unsigned # <<>>
      /\ \/ unsigned[1] \in Digits
         \/ unsigned[1] = "." /\ Len(unsigned) >= 2 /\ unsigned[2] \in Digits

Zero == [num |-> 0, scale |-> 0]

\* C13: the au of a course row is null exactly when its AU text, the unit
\* taken off, is empty or does not begin with a number; an AU text of "0.0"
\* gives the number 0 and an empty AU text gives null.
C13_AuNullExactlyWhenNotANumber ==
  \A i \in 1..Len(contentResult) :
    /\ contentResult[i].au = Null <=> ~BeginsWithNumber(WithoutUnit(OriginAuText(i)))
    /\ OriginAuText(i) = <<"0", ".", "0">> => contentResult[i].au = Some(Zero)
    /\ OriginAuText(i) = <<>> => contentResult[i].au = Null

C13_Witness ==
  /\ contentPc = "done"
  /\ Len(contentResult) = 1
  /\ OriginAuText(1) = <<"0", ".", "0">>
  /\ contentResult[1].au = Some(Zero)

\* The rows of the table of the i-th course that the walk has handled.
HandledRows(i) ==
  LET t == contentOrigin[i][1] IN
  IF contentTableNo = t THEN contentRowNo ELSE Len(contentHtml[t])

\* A header row, or a row with three cells or more whose first cell is
\* neither empty nor a label: a new-course row.
IsHeaderOrNewCourseRow(row) ==
  IsCourseCodeHeaderRow(TdCells(row)) \/ IsNewCourseRow(TdCells(row))

\* The rows between the new-course row of the i-th course and the next
\* new-course or header row of its table, as far as the walk has come.
RowsOfCourse(i) ==
  LET t == contentOrigin[i][1]
      r == contentOrigin[i][2]
  IN  {k \in (r + 1)..HandledRows(i) :
         \A j \in (r + 1)..k : ~IsHeaderOrNewCourseRow(contentHtml[t][j])}

\* Is the row a banner, by the text of the whole row?
IsUnrestrictedBannerRow(row) ==
  TdCells(row) # <<>> /\ IsUnrestrictedLabel(Clean(RowText(row)))

IsBroadeningBannerRow(row) ==
  TdCells(row) # <<>> /\ IsBroadeningDeepeningLabel(Clean(RowText(row)))

\* C14: at every point of the walk, a flag of a course is false if and only
\* if a banner of its kind is among the rows between the new-course row of
\* the course and the next new-course or header row; a flag that is false
\* stays false, the rows handled only growing.
C14_AsClaimed ==
  \A i \in 1..Len(contentWalk.courses) :
    LET t == contentOrigin[i][1] IN
    /\ ~contentWalk.courses[i].is_unrestricted_elective
         <=> \E k \in RowsOfCourse(i) : IsUnrestrictedBannerRow(contentHtml[t][k])
    /\ ~contentWalk.courses[i].is_broadening_deepening_elective
         <=> \E k \in RowsOfCourse(i) : IsBroadeningBannerRow(contentHtml[t][k])

\* C14 holds where no untitled row stands between a course and a banner.
C14_ButForUntitledRows ==
  (\A t \in 1..Len(contentHtml) : \A k \in 1..Len(contentHtml[t]) :
     contentHtml[t][k] # UntitledCourseRow(<<"S", "C", "9">>))
  => C14_AsClaimed

\* The row the walk handles next.
NextContentRow == contentHtml[contentTableNo][contentRowNo + 1]

\* Is the row, below an open course, a banner or a row of a labelled field?
IsBannerOrLabelledRow(row) ==
  /\ TdCells(row) # <<>>
  /\ ~IsHeaderOrNewCourseRow(row)
  /\ \/ IsUnrestrictedLabel(Clean(RowText(row)))
     \/ IsBroadeningDeepeningLabel(Clean(RowText(row)))
     \/ IsLabelledRow(TdCells(row))

\* The field or flag that a banner or a labelled row is about.
OwnField(row) ==
  LET label == CleanCell(TdCells(row), 0) IN
  IF IsUnrestrictedLabel(Clean(RowText(row))) THEN "is_unrestricted_elective"
  ELSE IF IsBroadeningDeepeningLabel(Clean(RowText(row)))
  THEN "is_broadening_deepening_elective"
  ELSE IF IsPrereqLabel(label) THEN "prerequisites"
  ELSE IF IsMutualLabel(label) THEN "mutual_exclusions"
  ELSE IF IsNotAvailableProgLabel(label) THEN "not_available_to_programme"
  ELSE IF IsNotAvailableAllLabel(label) THEN "not_available_to_all_programme_with"
  ELSE IF IsNotAvailableBDEUELabel(label) THEN "not_available_as_bde_ue_to_programme"
  ELSE "grade_type"

\* The walk handles a banner or a labelled row below an open course.
HandlesBannerOrLabelledRow ==
  /\ contentPc = "rows"
  /\ contentRowNo' = contentRowNo + 1
  /\ contentWalk.course # 0
  /\ IsBannerOrLabelledRow(NextContentRow)

\* C15: a banner or a row of a labelled field, with colspan cells or
\* without, leaves the description of every course as it is, and changes no
\* field of any course but its own field or flag of the open course.
C15_LabelledRowsLeaveDescription ==
  [][HandlesBannerOrLabelledRow =>
       /\ Len(contentWalk'.courses) = Len(contentWalk.courses)
       /\ \A i \in 1..Len(contentWalk.courses) :
            contentWalk'.courses[i].description = contentWalk.courses[i].description
       /\ contentWalk'.courses =
            [contentWalk.courses EXCEPT
               ![contentWalk.course][OwnField(NextContentRow)] =
                 contentWalk'.courses[contentWalk.course][OwnField(NextContentRow)]]]_vars

\* A row 'Not available as BDE/UE to Programme:' with the value in a colspan
\* cell has been handled: the value is in its field, not in the description.
C15_Witness ==
  /\ contentPc = "rows"
  /\ contentRowNo = 3
  /\ contentWalk.course = 1
  /\ IsNotAvailableBDEUELabel(CleanCell(TdCells(contentHtml[contentTableNo][3]), 0))
  /\ ColspanCells(TdCells(contentHtml[contentTableNo][3])) # <<>>
  /\ contentWalk.courses[1].not_available_as_bde_ue_to_programme = <<"B", "C", "E">>
  /\ contentWalk.courses[1].description = <<>>

(***************************************************************************)
(* Properties of parseNumber.                                              *)
(***************************************************************************)
\* 10 to the power n.
RECURSIVE Pow10(_)
Pow10(n) == IF n = 0 THEN 1 ELSE 10 * Pow10(n - 1)

\* The sum of the numbers f[1], ..., f[n].
RECURSIVE SumUpTo(_, _)
SumUpTo(f, n) == IF n = 0 THEN 0 ELSE f[n] + SumUpTo(f, n - 1)

\* The text without the white space around it and without its sign.
Unsigned(text) ==
  IF Trim(text) # <<>> /\ Trim(text)[1] \in {"+", "-"} THEN Tail(Trim(text))
  ELSE Trim(text)

\* Does the text, the white space around it apart, start with an integer: a
\* sign or none, and a digit?
StartsWithInteger(text) == Unsigned(text) # <<>> /\ Unsigned(text)[1] \in Digits

\* The integer that the text starts with, written by the k digits after
\* the sign, k the length of the longest run of digits there.
LeadingInteger(text) ==
  LET u == Unsigned(text)
      k == CHOOSE n \in 1..Len(u) :
             /\ \A i \in 1..n : u[i] \in Digits
             /\ n = Len(u) \/ u[n + 1] \notin Digits
      magnitude == SumUpTo([i \in 1..k |-> DigitValue[u[i]] * Pow10(k - i)], k)
  IN  IF Trim(text)[1] = "-" THEN 0 - magnitude ELSE magnitude

\* C19: parseNumber throws for no argument; it returns 0 for what is no
\* string, for the empty text, white space, "&nbsp;", "-", "N/A" and every
\* text that does not start with an integer, and the integer the text starts
\* with for every other text.
C19_ParseNumberTotal ==
  numPc = "returned" =>
    /\ ~numResult.thrown
    /\ ~numArg.isString => numResult.value = 0
    /\ numArg.isString /\ ~StartsWithInteger(numArg.text) => numResult.value = 0
    /\ numArg.isString /\ StartsWithInteger(numArg.text)
         => numResult.value = LeadingInteger(numArg.text)
    /\ numArg.text \in {<<>>, <<" ">>, <<"&", "n", "b", "s", "p",
                                         ";">>, <<"-">>, <<"N", "/",
                                                           "A">>} => numResult.value = 0

\* A text with digits and more has been parsed to the integer it starts with.
C19_Witness ==
  /\ numPc = "returned"
  /\ numArg = String(<<"1", "2", ".", "5">>)
  /\ numResult = Returned(12)

\* What is no string has been taken for 0.
C19_WitnessNotAString ==
  /\ numPc = "returned"
  /\ ~numArg.isString
  /\ numResult = Returned(0)

(***************************************************************************)
(* Properties of the vacancy parser and of GET /vacancy.                   *)
(***************************************************************************)
\* The page that was fetched, as text.
VacancySource == HtmlSource(vacFetch)

\* Is there nothing but white space from place i to place j of the text?
OnlyWhiteSpace(text, i, j) == \A k \in i..j : text[k] \in WhiteSpace

\* The places of the text that hold one of the characters.
PlacesOf(text, chars) == {k \in 1..Len(text) : text[k] \in chars}

\* The alert scripts of a text: the word alert at place p, an opening
\* parenthesis, a quote at place q, a message that holds no quote, a quote
\* at place u and a closing parenthesis, white space at most between them.
AlertScriptsOf(text) ==
  LET opening == PlacesOf(text, {"("})
      closing == PlacesOf(text, {")"})
      quotes == PlacesOf(text, Quotes)
  IN  {s \in [p : PlacesOf(text, {"a"}), q : quotes, u : quotes] :
         /\ s.p + 4 <= Len(text)
         /\ SubSeq(text, s.p, s.p + 4) = <<"a", "l", "e", "r", "t">>
         /\ \E o \in opening : /\ s.p + 4 < o /\ o < s.q
                                /\ OnlyWhiteSpace(text, s.p + 5, o - 1)
                                /\ OnlyWhiteSpace(text, o + 1, s.q - 1)
         /\ s.q < s.u
         /\ \A k \in (s.q + 1)..(s.u - 1) : text[k] \notin Quotes
         /\ \E c \in closing : s.u < c /\ OnlyWhiteSpace(text, s.u + 1, c - 1)}

AlertScripts == AlertScriptsOf(VacancySource)

\* The message of the first alert script of the page.
FirstAlertMessage ==
  LET scripts == AlertScripts
      first == CHOOSE s \in scripts : \A r \in scripts : s.p <= r.p
  IN  SubSeq(VacancySource, first.q + 1, first.u - 1)

VacancyParsed == vacPc \in {"parsed", "responded"} /\ vacResult # <<>>

C17_WitnessShortRows ==
  /\ VacancyParsed
  /\ vacFetch.isString
  /\ AlertScripts = {}
  /\ FirstBorderTable(vacFetch) # 0
  /\ Len(VacancyTable.rows) = 3
  /\ \A r \in 2..3 : Len(TdCells(VacancyTable.rows[r])) < 8
  /\ vacResult[1] = [indexes |-> <<>>, error |-> Null]

\* The data rows of the table that the walk has handled: the rows below the
\* first one.
HandledDataRows == 2..vacRowNo

\* Is row r of the table a row of 8 cells or more with an index cell that is
\* not blank?
IsIndexRow(r) ==
  /\ Len(TdCells(VacancyTable.rows[r])) >= 8
  /\ Trim(TdCells(VacancyTable.rows[r])[1].text) \notin {<<>>, <<"&", "n", "b", "s",
                                                                 "p", ";">>}

\* Is row r of the table a row of 8 cells or more with a type?
IsClassRow(r) ==
  /\ Len(TdCells(VacancyTable.rows[r])) >= 8
  /\ Trim(TdCells(VacancyTable.rows[r])[4].text) # <<>>

IndexRows == {r \in HandledDataRows : IsIndexRow(r)}

\* The rows of the class sessions of the group that row r opened: r and the
\* rows below it up to the next index row, as far as they have a type.
ClassRowsOf(r) ==
  {k \in HandledDataRows :
     /\ r <= k
     /\ IsClassRow(k)
     /\ \A j \in (r + 1)..k : ~IsIndexRow(j)}

\* Is the sequence of numbers increasing, and its numbers those of the set?
Enumerates(rows, set) ==
  /\ {rows[i] : i \in 1..Len(rows)} = set
  /\ \A i \in 1..(Len(rows) - 1) : rows[i] < rows[i + 1]

\* C18: at every point of the walk there are as many groups as index rows
\* among the data rows handled, in the order of the rows; the sessions of a
\* group come, in order, from the rows with a type from its index row up to
\* the next index row, so that a row without type, and a row with a blank
\* index cell above the first index row, give no session.
C18_GroupsFollowIndexRows ==
  vacPc = "rows" \/ (VacancyParsed /\ FirstBorderTable(vacFetch) # 0 /\ vacRowNo > 0) =>
    /\ Len(vacIndexes) = Cardinality(IndexRows)
    /\ Enumerates([g \in 1..Len(vacOrigin) |-> vacOrigin[g].row], IndexRows)
    /\ \A g \in 1..Len(vacIndexes) :
         /\ vacIndexes[g].index = Trim(TdCells(VacancyTable.rows[vacOrigin[g].row])[1].text)
         /\ Len(vacIndexes[g].classes) = Len(vacOrigin[g].classes)
         /\ Enumerates(vacOrigin[g].classes, ClassRowsOf(vacOrigin[g].row))
         /\ \A c \in 1..Len(vacIndexes[g].classes) :
              vacIndexes[g].classes[c].type =
                Trim(TdCells(VacancyTable.rows[vacOrigin[g].classes[c]])[4].text)
    /\ VacancyParsed => vacResult[1].indexes = vacIndexes

\* A table has been parsed whose second data row goes on with the group of
\* the first: one group, two class sessions.
C18_Witness ==
  /\ VacancyParsed
  /\ vacRowNo = 3
  /\ IsIndexRow(2)
  /\ ~IsIndexRow(3) /\ IsClassRow(3)
  /\ Len(vacResult[1].indexes) = 1
  /\ Len(vacResult[1].indexes[1].classes) = 2

\* A table has been parsed whose first data row has a blank index cell and
\* a type: the row gave no session.
C18_WitnessNoGroupOpen ==
  /\ VacancyParsed
  /\ vacRowNo = 3
  /\ ~IsIndexRow(2) /\ IsClassRow(2)
  /\ IsIndexRow(3) /\ IsClassRow(3)
  /\ Len(vacResult[1].indexes) = 1
  /\ Len(vacResult[1].indexes[1].classes) = 1

\* The response of the handler, once sent.
Responded == vacPc = "responded" /\ vacResponse # <<>>

\* C20: a request without course_code is answered 400; else an error of the
\* parser that holds 'only available from' is answered 503
\* SERVICE_UNAVAILABLE and any other error of the parser 500; else an empty
\* list of indexes 404 NOT_FOUND; else an index filter that matches nothing
\* 404 INDEX_NOT_FOUND.  A page with an alert script is never answered 404,
\* and a 200 never carries an empty list of indexes.
C20_AsClaimed ==
  Responded =>
    /\ ~Truthy(vacQuery.course_code)
         => vacResponse[1].status = 400
    /\ vacResult # <<>> =>
         LET result == vacResult[1]
             answer == vacResponse[1]
         IN  /\ result.error # Null /\ Includes(result.error[1], <<"o", "n", "l", "y",
                                                                   " ", "a", "v", "a",
                                                                   "i", "l", "a", "b",
                                                                   "l", "e", " ", "f",
                                                                   "r", "o", "m">>)
                  => answer.status = 503 /\ answer.code = "SERVICE_UNAVAILABLE"
             /\ result.error # Null /\ ~Includes(result.error[1], <<"o", "n", "l",
                                                                    "y", " ", "a",
                                                                    "v", "a", "i",
                                                                    "l", "a", "b",
                                                                    "l", "e", " ",
                                                                    "f", "r", "o",
                                                                    "m">>)
                  => answer.status = 500
             /\ result.error = Null /\ result.indexes = <<>>
                  => answer.status = 404 /\ answer.code = "NOT_FOUND"
             /\ (/\ result.error = Null /\ result.indexes # <<>>
                 /\ Truthy(vacQuery.index)
                 /\ \A i \in 1..Len(result.indexes) :
                      result.indexes[i].index # Trim(vacQuery.index[1]))
                  => answer.status = 404 /\ answer.code = "INDEX_NOT_FOUND"
             /\ vacFetch.isString /\ AlertScripts # {} => answer.status # 404
    /\ vacResponse[1].status = 200 => vacResponse[1].indexes # <<>>

\* C20 holds of every request whose page has no alert with an empty message.
C20_ButForEmptyAlert ==
  (vacResult # <<>> => vacResult[1].error # Some(<<>>)) => C20_AsClaimed

\* An alert without message has been answered 404 NOT_FOUND.
C20_EmptyAlertAnswered404 ==
  /\ Responded
  /\ vacFetch.isString
  /\ AlertScripts # {}
  /\ vacResult # <<>>
  /\ vacResult[1].error = Some(<<>>)
  /\ vacResponse[1].status = 404
  /\ vacResponse[1].code = "NOT_FOUND"

(***************************************************************************)
(* Properties of the walk of parseSchedule over the tables.                *)
(***************************************************************************)
IsSessionTableAt(t) == IsScheduleTable(schedHtml[t])

IsHeaderTableAt(t) == ~IsScheduleTable(schedHtml[t]) /\ IsCourseHeaderTable(schedHtml[t])

\* The header tables above table t that no session table stands between.
PendingHeaders(t) ==
  {h \in 1..(t - 1) : IsHeaderTableAt(h) /\ \A k \in (h + 1)..(t - 1) : ~IsSessionTableAt(k)}

\* The session tables handled so far that had a header pending.
EmittingTables == {t \in 1..schedTableNo : IsSessionTableAt(t) /\ PendingHeaders(t) # {}}

\* The most recent of the headers pending at table t.
LastPendingHeader(t) == CHOOSE h \in PendingHeaders(t) : \A k \in PendingHeaders(t) : k <= h

\* C25: at every point of the walk the courses emitted are, in order, the
\* session tables handled that had a header pending, one course each, with
\* the course code of the most recent header table above the session table;
\* so a header table followed by a header table gives no course of its own.
C25_OneCoursePerSessionTableWithHeader ==
  /\ Len(schedCourses) = Cardinality(EmittingTables)
  /\ {schedOrigin[i] : i \in 1..Len(schedOrigin)} = EmittingTables
  /\ \A i \in 1..(Len(schedOrigin) - 1) : schedOrigin[i] < schedOrigin[i + 1]
  /\ \A i \in 1..Len(schedCourses) :
       schedCourses[i].course_code =
         CleanCell(FirstRowCells(schedHtml[LastPendingHeader(schedOrigin[i])]), 0)

\* Two header tables and a session table have been handled: one course, with
\* the code of the second header.
C25_Witness ==
  /\ schedTableNo = 3
  /\ IsHeaderTableAt(1) /\ IsHeaderTableAt(2) /\ IsSessionTableAt(3)
  /\ Len(schedCourses) = 1
  /\ schedCourses[1].course_code = <<"S", "C", "3">>
  /\ schedCourses[1].course_code # CleanCell(FirstRowCells(schedHtml[1]), 0)

\* The walk handles a session table while no header is pending.
HandlesOrphanSessionTable ==
  /\ schedTableNo' = schedTableNo + 1
  /\ IsSessionTableAt(schedTableNo + 1)
  /\ PendingHeaders(schedTableNo + 1) = {}

\* Every course holds the sections of one session table, which had a header
\* pending, and no two courses come from the same header.
OneSessionTablePerHeader ==
  /\ \A i \in 1..Len(schedCourses) :
       schedCourses[i].sections = FilterSections(ParseScheduleRows(schedHtml[schedOrigin[i]]))
  /\ \A i \in 1..Len(schedCourses) : PendingHeaders(schedOrigin[i]) # {}
  /\ \A i, j \in 1..Len(schedCourses) :
       i # j => LastPendingHeader(schedOrigin[i]) # LastPendingHeader(schedOrigin[j])

\* C26: a session table met while no header is pending emits nothing and
\* changes neither the courses nor the pending course; a header is consumed
\* by one session table at most, whose rows alone the course holds.
C26_OrphanSessionTableSkipped ==
  /\ [][HandlesOrphanSessionTable =>
         UNCHANGED <<schedCourses, schedCurrentCourse, schedOrigin, schedHtml>>]_vars
  /\ []OneSessionTablePerHeader

\* A header and two session tables have been handled: one course, holding
\* the rows of the first session table, which has a section.
C26_Witness ==
  /\ schedTableNo = 3
  /\ IsHeaderTableAt(1) /\ IsSessionTableAt(2) /\ IsSessionTableAt(3)
  /\ Len(schedCourses) = 1
  /\ schedOrigin = <<2>>
  /\ schedCourses[1].sections # <<>>
  /\ schedCurrentCourse = Null

(***************************************************************************)
(* Properties of the row walk of the content parser.                       *)
(***************************************************************************)
\* The walk handles the next row of the table.
HandlesContentRow == contentPc = "rows" /\ contentRowNo' = contentRowNo + 1

\* The walk handles a row with three cells or more whose first cell is
\* neither empty nor a label, and that is no header row.
HandlesNewCourseRow ==
  /\ HandlesContentRow
  /\ ~IsCourseCodeHeaderRow(TdCells(NextContentRow))
  /\ IsNewCourseRow(TdCells(NextContentRow))

\* C27: every row with three cells or more, a first cell that is not empty
\* and matches no label, starts a new course: a record is pushed and becomes
\* the open course, so that no later detail row goes to the course before.
C27_AsClaimed ==
  [][HandlesNewCourseRow =>
       /\ Len(contentWalk'.courses) = Len(contentWalk.courses) + 1
       /\ contentWalk'.course = Len(contentWalk.courses) + 1]_vars

\* C27 holds of the new-course rows that have a title.
C27_ButForUntitledRows ==
  [][HandlesNewCourseRow /\ CleanCell(TdCells(NextContentRow), 1) # <<>> =>
       /\ Len(contentWalk'.courses) = Len(contentWalk.courses) + 1
       /\ contentWalk'.course = Len(contentWalk.courses) + 1
       /\ contentWalk'.courses[contentWalk'.course].course_code
            = CleanCell(TdCells(NextContentRow), 0)]_vars

\* A row with a code and no title has been handled below a course: no record
\* was pushed, and the course before it is still the open one.
C27_UntitledRowLeavesCourseOpen ==
  /\ contentPc = "rows"
  /\ contentRowNo >= 3
  /\ contentHtml[contentTableNo][contentRowNo] = UntitledCourseRow(<<"S", "C", "9">>)
  /\ Len(contentWalk.courses) = 1
  /\ contentWalk.course = 1

\* Is the row a banner, by its whole text?
IsBannerRow(row) ==
  IsUnrestrictedLabel(Clean(RowText(row))) \/ IsBroadeningDeepeningLabel(Clean(RowText(row)))

\* Is the row, below an open course, a label row: a row of one of the six
\* labelled fields or a description label row?
IsLabelRow(row) ==
  /\ TdCells(row) # <<>>
  /\ ~IsHeaderOrNewCourseRow(row)
  /\ ~IsBannerRow(row)
  /\ IsLabelledRow(TdCells(row)) \/ IsDescriptionLabel(CleanCell(TdCells(row), 0))

\* Is the row a row without label: an empty first cell and a merged value?
IsContinuationRow(row) ==
  /\ TdCells(row) # <<>>
  /\ ~IsHeaderOrNewCourseRow(row)
  /\ ~IsBannerRow(row)
  /\ CleanCell(TdCells(row), 0) = <<>>
  /\ MergedValue(TdCells(row)) # <<>>

\* The label rows handled since the last new-course or header row of the
\* table.
LabelRowsBefore ==
  {k \in 1..contentRowNo :
     /\ IsLabelRow(contentHtml[contentTableNo][k])
     /\ \A j \in k..contentRowNo :
          ~IsHeaderOrNewCourseRow(contentHtml[contentTableNo][j])}

\* The text of the colspan cells of a row.
ColspanText(row) == Clean(RowText(ColspanCells(TdCells(row))))

\* Is the row one that no rule before the colspan rule takes, a continuation
\* row counting as taken when a label is set, and does it hold a colspan cell
\* whose text is neither a banner nor a prerequisite or mutual-exclusion label?
IsColspanTextRow(row) ==
  /\ TdCells(row) # <<>>
  /\ ~IsHeaderOrNewCourseRow(row)
  /\ ~IsBannerRow(row)
  /\ ~IsLabelRow(row)
  /\ ~(IsContinuationRow(row) /\ LabelRowsBefore # {})
  /\ ColspanCells(TdCells(row)) # <<>>
  /\ ColspanText(row) # <<>>
  /\ ~IsUnrestrictedLabel(ColspanText(row))
  /\ ~IsBroadeningDeepeningLabel(ColspanText(row))
  /\ ~IsPrereqLabel(ColspanText(row))
  /\ ~IsMutualLabel(ColspanText(row))

\* The description with a text appended.
DescriptionWith(description, text) ==
  IF description # <<>> THEN Trim(description \o <<" ">> \o text) ELSE text

\* C28: with a course open, a row that no earlier rule takes and that holds
\* a colspan cell has the text of the cell appended to the description of the
\* open course, unless the text is a banner or a prerequisite or
\* mutual-exclusion label; so has a row with an empty first cell and text in
\* column 1 that comes before any label row of the course.
C28_AsClaimed ==
  [][HandlesContentRow /\ contentWalk.course # 0 /\ IsColspanTextRow(NextContentRow) =>
       contentWalk'.courses[contentWalk.course].description
         = DescriptionWith(contentWalk.courses[contentWalk.course].description,
                           ColspanText(NextContentRow))]_vars

\* C28 holds of the rows whose first cell is not empty or whose columns 1
\* and 2 are.
C28_ButForRowsWithoutLabel ==
  [][/\ HandlesContentRow /\ contentWalk.course # 0
     /\ IsColspanTextRow(NextContentRow)
     /\ ~IsContinuationRow(NextContentRow)
     => contentWalk'.courses[contentWalk.course].description
          = DescriptionWith(contentWalk.courses[contentWalk.course].description,
                            ColspanText(NextContentRow))]_vars

\* A row with an empty first cell and text in a colspan cell of column 1 has
\* been handled right below the course row: the description is still empty.
C28_TextBeforeAnyLabelDropped ==
  /\ contentPc = "rows"
  /\ contentRowNo = 3
  /\ contentHtml[contentTableNo][3] = ContinuationRow
  /\ contentWalk.course = 1
  /\ contentWalk.courses[1].description = <<>>

\* The last label row handled since the last new-course or header row.
LastLabelRow ==
  contentHtml[contentTableNo][CHOOSE k \in LabelRowsBefore :
                                \A j \in LabelRowsBefore : j <= k]

\* The field a label row names.
LabelRowField(row) ==
  IF IsLabelledRow(TdCells(row)) THEN OwnField(row) ELSE "description"

\* The field with the value of a row without label appended.
FieldWith(f, field, mergedValue) ==
  IF f = "description" /\ field = <<>> THEN mergedValue
  ELSE field \o <<" ">> \o mergedValue

\* The walk handles a row without label below an open course.
HandlesContinuationRow ==
  /\ HandlesContentRow
  /\ contentWalk.course # 0
  /\ IsContinuationRow(NextContentRow)

\* C29: a row without label appends its value to the field named by the
\* last label row handled since the last new-course or header row, and
\* changes no other field of any course; with no such label row, a label row
\* below an earlier course or none at all, it changes no field.
C29_ContinuationExtendsLastLabelOnly ==
  [][HandlesContinuationRow =>
       /\ contentWalk'.course = contentWalk.course
       /\ contentWalk'.courses =
            IF LabelRowsBefore = {} THEN contentWalk.courses
            ELSE [contentWalk.courses EXCEPT
                    ![contentWalk.course][LabelRowField(LastLabelRow)] =
                      FieldWith(LabelRowField(LastLabelRow), @,
                                MergedValue(TdCells(NextContentRow)))]]_vars

\* A row without label has been handled below a Prerequisite row, and
\* another below a second course: the first went on with the prerequisites
\* of the first course, the second changed nothing.
C29_Witness ==
  /\ contentPc = "rows"
  /\ contentRowNo = 7
  /\ IsPrereqLabel(CleanCell(TdCells(contentHtml[contentTableNo][3]), 0))
  /\ contentHtml[contentTableNo][4] = ContinuationRow
  /\ contentHtml[contentTableNo][7] = ContinuationRow
  /\ Len(contentWalk.courses) = 2
  /\ contentWalk.courses[1].prerequisites = <<"S", "C", "1", "0", "0", "4", " ", "S",
                                              "C", "2", "0", "0", "0">>
  /\ contentWalk.courses[2].prerequisites = <<>>
  /\ contentWalk.courses[2].description = <<>>

\* Does the first cell of the row read COURSE CODE, in any case of letters?
ReadsCourseCode(row) ==
  /\ TdCells(row) # <<>>
  /\ ToUpperCase(CleanCell(TdCells(row), 0)) = <<"C", "O", "U", "R", "S", "E", " ",
                                                 "C", "O", "D", "E">>

\* Is the row a new-course row, and no header row?
IsCourseStartRow(row) ==
  ~IsCourseCodeHeaderRow(TdCells(row)) /\ IsNewCourseRow(TdCells(row))

\* C30, as claimed: after a row whose first cell reads COURSE CODE and
\* before the next new-course row of the table, no row changes any record.
C30_AsClaimed ==
  [][/\ HandlesContentRow
     /\ ~IsCourseStartRow(NextContentRow)
     /\ \E k \in 1..contentRowNo :
          /\ ReadsCourseCode(contentHtml[contentTableNo][k])
          /\ \A j \in (k + 1)..contentRowNo :
               ~IsCourseStartRow(contentHtml[contentTableNo][j])
     => contentWalk'.courses = contentWalk.courses]_vars

\* C30: after a row of three cells or more whose first cell reads COURSE
\* CODE and before the next new-course row of the table, no row changes any
\* record: labelled rows, banners, rows without label and colspan rows are
\* all skipped.
C30_NoRecordChangesBelowHeader ==
  [][/\ HandlesContentRow
     /\ ~IsCourseStartRow(NextContentRow)
     /\ \E k \in 1..contentRowNo :
          /\ IsCourseCodeHeaderRow(TdCells(contentHtml[contentTableNo][k]))
          /\ \A j \in (k + 1)..contentRowNo :
               ~IsCourseStartRow(contentHtml[contentTableNo][j])
     => contentWalk'.courses = contentWalk.courses]_vars

\* A banner has been handled below a header row that follows a course: the
\* flag of the course is as it was.
C30_Witness ==
  /\ contentPc = "rows"
  /\ contentRowNo = 4
  /\ contentHtml[contentTableNo][3] = CourseCodeHeaderRow
  /\ contentHtml[contentTableNo][4] = BroadeningBanner
  /\ Len(contentWalk.courses) = 1
  /\ contentWalk.course = 0
  /\ contentWalk.courses[1].is_broadening_deepening_elective

(***************************************************************************)
(* Properties of the form parsers.                                         *)
(***************************************************************************)
\* The value of an option, white space collapsed and trimmed; empty for an
\* option without value attribute.
OptionValue(option) == Clean(IF option.value = Null THEN <<>> ELSE option.value[1])

\* Is the list the options of the selects of the name that have a value, in
\* document order, each with its value and its text?
IsOptionsWithValue(list, name) ==
  LET options == OptionsOf(optHtml, name)
      kept == {i \in 1..Len(options) : OptionValue(options[i]) # <<>>}
  IN  /\ Len(list) = Cardinality(kept)
      /\ \A i \in kept :
           LET place == Cardinality({j \in kept : j <= i}) IN
           /\ place <= Len(list)
           /\ list[place].value = OptionValue(options[i])
           /\ list[place].label = Clean(options[i].text)

\* C23: parseScheduleOptions and parseContentOptions return the options of
\* a select in document order without the options whose value is empty, and
\* an empty list for a select the document does not hold.
C23_OptionsWithValueInOrder ==
  optPc # "idle" =>
    /\ IsOptionsWithValue(optResult.acadsem, "acadsem")
    /\ IsOptionsWithValue(optResult.courseYears, "r_course_yr")
    /\ (\A i \in 1..Len(optHtml) : optHtml[i].name # "acadsem")
         => optResult.acadsem = <<>>
    /\ (\A i \in 1..Len(optHtml) : optHtml[i].name # "r_course_yr")
         => optResult.courseYears = <<>>

\* parseScheduleOptions has returned for a form whose select acadsem holds
\* an option without value and the option 2025_1 below it, and that holds no
\* select r_course_yr.
C23_Witness ==
  /\ optPc = "schedule"
  /\ Len(OptionsOf(optHtml, "acadsem")) = 2
  /\ OptionsOf(optHtml, "acadsem")[1].value = Some(<<>>)
  /\ optResult.acadsem = <<[value |-> <<"2", "0", "2", "5", "_",
                                        "1">>, label |-> <<"2", "0", "2", "5", " ",
                                                           "S", "e", "m", " ", "1">>]>>
  /\ OptionsOf(optHtml, "r_course_yr") = <<>>
  /\ optResult.courseYears = <<>>

(***************************************************************************)
(* Properties of parseExamMetadata.                                        *)
(***************************************************************************)
\* The academic session of the page: the hidden input, or else the selected
\* option, or else the first option.
SessionOfPage ==
  IF examMetaHtml.academic_session # <<>> THEN examMetaHtml.academic_session
  ELSE IF Trim(SelectedText(examMetaHtml.sessionOptions)) # <<>>
  THEN Trim(SelectedText(examMetaHtml.sessionOptions))
  ELSE Trim(FirstText(examMetaHtml.sessionOptions))

\* Do the places i..j of the text hold digits only?
AllDigits(text, i, j) == \A k \in i..j : text[k] \in Digits

\* The places of the text where 'Semester {d} Academic Year {yyyy}-{yyyy}'
\* stands, each with the number of digits of d.
SessionForms(text) ==
  {f \in (1..Len(text)) \X (1..Len(text)) :
     /\ f[1] + 32 + f[2] <= Len(text)
     /\ SubSeq(text, f[1], f[1] + 8) = <<"S", "e", "m", "e", "s", "t", "e", "r", " ">>
     /\ AllDigits(text, f[1] + 9, f[1] + 8 + f[2])
     /\ SubSeq(text, f[1] + 9 + f[2], f[1] + 23 + f[2]) = <<" ", "A", "c", "a", "d",
                                                            "e", "m", "i", "c", " ",
                                                            "Y", "e", "a", "r", " ">>
     /\ AllDigits(text, f[1] + 24 + f[2], f[1] + 27 + f[2])
     /\ text[f[1] + 28 + f[2]] = "-"
     /\ AllDigits(text, f[1] + 29 + f[2], f[1] + 32 + f[2])}

\* The first of them.
FirstSessionForm(text) ==
  CHOOSE f \in SessionForms(text) : \A g \in SessionForms(text) : f[1] <= g[1]

SemesterOfForm(text, f) == SubSeq(text, f[1] + 9, f[1] + 8 + f[2])

FirstYearOfForm(text, f) == SubSeq(text, f[1] + 24 + f[2], f[1] + 27 + f[2])

SecondYearOfForm(text, f) == SubSeq(text, f[1] + 29 + f[2], f[1] + 32 + f[2])

\* parseExamMetadata has returned for a page without plan radio buttons
\* whose inputs lack the exam year or the semester and whose academic
\* session holds the form.
DerivesFromSession ==
  /\ examMetaPc = "returned"
  /\ examMetaHtml.planRadios = <<>>
  /\ \/ examMetaHtml.p_exam_yr = <<>> /\ examMetaHtml.r_exam_yr = <<>>
     \/ examMetaHtml.p_semester = <<>> /\ examMetaHtml.r_semester = <<>>
  /\ SessionForms(SessionOfPage) # {}

\* C22, as claimed: the semester is the digit group of the form and the
\* exam year is its second year, the later year of the range.
C22_AsClaimed ==
  DerivesFromSession =>
    /\ Len(examMetaResult) = 1
    /\ examMetaResult[1].semester
         = SemesterOfForm(SessionOfPage, FirstSessionForm(SessionOfPage))
    /\ examMetaResult[1].examYear
         = SecondYearOfForm(SessionOfPage, FirstSessionForm(SessionOfPage))

\* C22: when the inputs of the page lack the exam year or the semester,
\* parseExamMetadata takes both from the form 'Semester {d} Academic Year
\* {yyyy}-{yyyy}' of the academic session: the semester is the digit group
\* and the exam year is the first year, the earlier year of the range.
C22_YearIsFirstOfRange ==
  DerivesFromSession =>
    /\ Len(examMetaResult) = 1
    /\ examMetaResult[1].semester
         = SemesterOfForm(SessionOfPage, FirstSessionForm(SessionOfPage))
    /\ examMetaResult[1].examYear
         = FirstYearOfForm(SessionOfPage, FirstSessionForm(SessionOfPage))

\* A page with the session 'Semester 1 Academic Year 2025-2026', a semester
\* input and no exam year input: the result is semester 1 of 2025.
C22_Witness ==
  /\ examMetaPc = "returned"
  /\ examMetaHtml.planRadios = <<>>
  /\ examMetaHtml.academic_session = <<"S", "e", "m", "e", "s", "t", "e", "r", " ",
                                       "1", " ", "A", "c", "a", "d", "e", "m", "i",
                                       "c", " ", "Y", "e", "a", "r", " ", "2", "0",
                                       "2", "5", "-", "2", "0", "2", "6">>
  /\ examMetaHtml.p_exam_yr = <<>> /\ examMetaHtml.r_exam_yr = <<>>
  /\ examMetaHtml.r_semester = <<"2">>
  /\ Len(examMetaResult) = 1
  /\ examMetaResult[1].examYear = <<"2", "0", "2", "5">>
  /\ examMetaResult[1].semester = <<"1">>

(***************************************************************************)
(* Properties of processMetadata.                                          *)
(***************************************************************************)
\* The semesters discovered: the year and semester of every option with a
\* value of the select acadsem of either form.
DiscoveredSemesters ==
  LET options == OptionsOf(metaJob.scheduleHtml, "acadsem")
                   \o OptionsOf(metaJob.contentHtml, "acadsem")
  IN  {ParseAcadSem(OptionValue(options[i])) :
         i \in {j \in 1..Len(options) : OptionValue(options[j]) # <<>>}}

\* Their years, as numbers.
DiscoveredYears == {DigitsToNat(d.year) : d \in DiscoveredSemesters}

\* The two greatest of the years: those with fewer than two years above.
TwoGreatestYears ==
  {y \in DiscoveredYears : Cardinality({z \in DiscoveredYears : z > y}) < 2}

\* C21: once saveMetadata has returned, every discovered semester has its
\* row in semester_metadata; and every job added to the queue, a content,
\* schedule, exam or backfill scrape, is for a semester whose year is one of
\* the two greatest years discovered.
C21_AllSavedTwoYearsScraped ==
  /\ metaPc \in {"prepare", "discover", "trigger", "done"} =>
       \A d \in DiscoveredSemesters :
         \E r \in semester_metadata : r.year = d.year /\ r.semester = d.semester
  /\ \A i \in 1..Len(scrapeQueue) :
       /\ scrapeQueue[i].name \in {"scrape-content", "scrape-schedule", "scrape-exam",
                                   "scrape-backfill"}
       /\ DigitsToNat(ParseAcadSem(scrapeQueue[i].data.acadsem).year) \in TwoGreatestYears

\* processMetadata is done for forms with four years: four rows are saved,
\* jobs of the four kinds are in the queue, and none is for the other years.
C21_Witness ==
  /\ metaPc = "done"
  /\ Cardinality(DiscoveredYears) = 4
  /\ Cardinality(semester_metadata) = 4
  /\ {scrapeQueue[i].name : i \in 1..Len(scrapeQueue)}
       = {"scrape-content", "scrape-schedule", "scrape-exam", "scrape-backfill"}
  /\ {DigitsToNat(ParseAcadSem(scrapeQueue[i].data.acadsem).year) :
        i \in 1..Len(scrapeQueue)} = TwoGreatestYears

(***************************************************************************)
(* Properties of the connection of a batch write.                          *)
(***************************************************************************)
\* C24: a batch write that has acquired a client has released it exactly
\* once when it returns or throws, whether the COMMIT went through, a query
\* was rejected and the ROLLBACK went through, or the ROLLBACK was rejected
\* too; it never releases twice, and no client is held once the call has
\* returned or thrown.
C24_ReleasedOnceOnEveryPath ==
  /\ writerReleases <= 1
  /\ writerPc \in {"returned", "threw"} =>
       /\ poolHeld = 0
       /\ writerReleases = IF writerAcquired THEN 1 ELSE 0

\* A batch write has thrown after a rejected ROLLBACK: its client is
\* released, once.
C24_Witness ==
  /\ writerPc = "threw"
  /\ writerError = "rollback"
  /\ writerAcquired
  /\ writerReleases = 1
  /\ poolHeld = 0

(***************************************************************************)
(* Properties of parseExamDetails: which rows give a record, and from      *)
(* which cells.                                                            *)
(***************************************************************************)
\* The data rows the walk has been through: those of the tables with relevant
\* headers before the current one, and the first rowNo of the current one.
ExamRowsHandled ==
  {tr \in (1..tableNo) \X (1..MaxRows + 1) :
     /\ HasRelevantHeaders(Headers(page.tables[tr[1]]))
     /\ tr[2] <= (IF tr[1] = tableNo THEN rowNo ELSE Len(DataRows(page.tables[tr[1]])))}

ExamCellsAt(tr) == Cells(DataRows(page.tables[tr[1]])[tr[2]])

\* A row the parser maps: three cells at least, and no header restated.
IsMappedExamRow(tr) ==
  /\ Len(ExamCellsAt(tr)) >= 3
  /\ ToUpperCase(ExamCellsAt(tr)[1]) \notin
       {<<"D", "A", "T", "E">>, <<"C", "O", "U", "R", "S", "E", " ", "C", "O", "D",
                                  "E">>, <<"C", "O", "U", "R", "S", "E">>, <<"T", "I",
                                                                             "M",
                                                                             "E">>, <<"D", "A", "Y">>, <<"V", "E", "N", "U", "E">>}

\* The course code of a row: cell 3 of a row of five cells, the cell under
\* the code header of a shorter one.
ExamCodeAt(tr) ==
  IF Len(ExamCellsAt(tr)) >= 5 THEN ExamCellsAt(tr)[4]
  ELSE MapByHeaders(Headers(page.tables[tr[1]]), ExamCellsAt(tr)).courseCode

StrippedCode(code) == IF HasSuffix(code) THEN WithoutLast(code) ELSE code

\* C31: a mapped data row has a record in the output if and only if its course
\* code, one trailing '*', '+' or '#' taken off, is longer than 2 characters,
\* and the course_code of the record is that stripped code in upper case.
C31_EmittedIffStrippedCodeLongerThanTwo ==
  /\ \A tr \in ExamRowsHandled :
       IsMappedExamRow(tr) =>
         ((\E i \in 1..Len(origin) : origin[i] = tr) <=> (Len(StrippedCode(ExamCodeAt(tr))) > 2))
  /\ \A i \in 1..Len(parsed) :
       /\ origin[i] \in ExamRowsHandled
       /\ parsed[i].course_code = ToUpperCase(StrippedCode(ExamCodeAt(origin[i])))

\* The page is parsed to its end: the row whose code is 'SC*' gave nothing,
\* the row whose code is 'sc2*' gave the record of SC2.
C31_Witness ==
  /\ pc = "done"
  /\ \E tr \in ExamRowsHandled :
       /\ IsMappedExamRow(tr)
       /\ ExamCodeAt(tr) = <<"S", "C", "*">>
       /\ \A i \in 1..Len(origin) : origin[i] # tr
  /\ \E i \in 1..Len(parsed) :
       /\ ExamCodeAt(origin[i]) = <<"s", "c", "2", "*">>
       /\ parsed[i].course_code = <<"S", "C", "2">>

\* The row with its cell 1 emptied.
RowWithoutCellOne(row) == [row EXCEPT ![2] = [@ EXCEPT !.text = <<>>]]

\* The record the parser gives for a row, or none.
ExamRecordOf(tr, row) ==
  ParseRow(Headers(page.tables[tr[1]]), row, hasExamTypeLegend, Acadsem, argStudentType)

\* A record's fields are those of cells 0, 2, 3, 4, 5 and 6 of its row, and
\* the record is what the row gives with its cell 1 emptied.
ExamPositionalAt(i) ==
  LET cells == ExamCellsAt(origin[i])
      row == DataRows(page.tables[origin[i][1]])[origin[i][2]]
  IN  Len(cells) >= 5 =>
        /\ parsed[i].exam_date = cells[1]
        /\ parsed[i].exam_time = cells[3]
        /\ parsed[i].course_code = ToUpperCase(StrippedCode(cells[4]))
        /\ parsed[i].course_title = cells[5]
        /\ parsed[i].exam_duration = CellOrEmpty(cells, 5)
        /\ parsed[i].venue = CellOrEmpty(cells, 6)
        /\ <<parsed[i]>> = ExamRecordOf(origin[i], RowWithoutCellOne(row))

\* C32: the record of a row of five cells or more takes exam_date, exam_time,
\* course code, course_title, exam_duration and venue from cells 0, 2, 3, 4, 5
\* and 6 whatever the headers are, and cell 1 reaches none of its fields.
C32_AsClaimed == \A i \in 1..Len(parsed) : ExamPositionalAt(i)

\* The header of column 1 names a seat.
SeatHeadsColumnOne(t) ==
  LET headers == Headers(page.tables[t]) IN
  Len(headers) >= 2 /\ Includes(ToLowerCase(headers[2]), <<"s", "e", "a", "t">>)

\* What holds of the code: the six fields are positional under every header,
\* and cell 1 reaches no field unless its column is headed as a seat.
C32_PositionalButForSeatColumn ==
  \A i \in 1..Len(parsed) : ~SeatHeadsColumnOne(origin[i][1]) => ExamPositionalAt(i)

\* Under a seat header in column 1 the day of the week is stored as seat_no.
C32_DayStoredAsSeat ==
  \E i \in 1..Len(parsed) :
    /\ SeatHeadsColumnOne(origin[i][1])
    /\ Len(ExamCellsAt(origin[i])) >= 5
    /\ parsed[i].seat_no = ExamCellsAt(origin[i])[2]
    /\ parsed[i].seat_no # <<>>

(***************************************************************************)
(* Properties of parseContent: which record a row may change.              *)
(***************************************************************************)
\* The new-course rows of the records are in the order of the page.
OriginsInPageOrder ==
  \A i, j \in 1..Len(contentOrigin) :
    i < j => \/ contentOrigin[i][1] < contentOrigin[j][1]
             \/ /\ contentOrigin[i][1] = contentOrigin[j][1]
                /\ contentOrigin[i][2] < contentOrigin[j][2]

\* Record i is the record of the i-th new-course row.
RecordsFollowOrigins(records) ==
  /\ Len(records) = Len(contentOrigin)
  /\ \A i \in 1..Len(records) :
       records[i].course_code = CleanCell(TdCells(ContentOriginRow(i)), 0)

\* C38: a row changes fields of no record but the last one pushed, every
\* record pushed before it stays as it is, and the records of the output are
\* in the order of their new-course rows.
C38_OnlyLastRecordChangesOrderKept ==
  [][/\ HandlesContentRow =>
          /\ Len(contentWalk'.courses) >= Len(contentWalk.courses)
          /\ \A i \in 1..Len(contentWalk.courses) - 1 :
               contentWalk'.courses[i] = contentWalk.courses[i]
          /\ (Len(contentWalk'.courses) > Len(contentWalk.courses)
                => SubSeq(contentWalk'.courses, 1, Len(contentWalk.courses))
                     = contentWalk.courses)
     /\ OriginsInPageOrder'
     /\ RecordsFollowOrigins(contentWalk.courses)'
     /\ (contentPc' = "done" => RecordsFollowOrigins(contentResult)')]_vars

\* Two records are returned in the order of their rows; a banner below the
\* second course cleared its flag and left the first record as it was pushed.
C38_Witness ==
  /\ contentPc = "done"
  /\ Len(contentResult) = 2
  /\ contentOrigin[1][2] < contentOrigin[2][2]
  /\ contentResult[1].course_code = <<"S", "C", "1">>
  /\ contentResult[2].course_code = <<"S", "C", "2">>
  /\ ~contentResult[2].is_unrestricted_elective
  /\ contentResult[1].is_unrestricted_elective

(***************************************************************************)
(* Properties of processMetadata: when child jobs are added.               *)
(***************************************************************************)
\* saveMetadata has stored a row for every semester discovered.
DiscoveredSemestersSaved ==
  \A d \in DiscoveredSemesters :
    \E r \in semester_metadata : r.year = d.year /\ r.semester = d.semester

\* C36: a child job is in the queue only when job.data.triggerNext is true and
\* saveMetadata has returned with the semesters saved; when the save has
\* thrown the queue is empty, and without triggerNext the run ends with the
\* semesters saved and the queue empty.
C36_ChildJobsOnlyWithTriggerAfterSave ==
  /\ scrapeQueue # <<>> =>
       /\ metaJob.triggerNext
       /\ metaPc = "done"
       /\ DiscoveredSemestersSaved
  /\ metaPc = "threw" => scrapeQueue = <<>>
  /\ (metaPc = "done" /\ ~metaJob.triggerNext) =>
       /\ scrapeQueue = <<>>
       /\ DiscoveredSemestersSaved

\* saveMetadata has thrown in a run with triggerNext and with candidates of
\* both forms: nothing is in the queue.
C36_Witness ==
  /\ metaPc = "threw"
  /\ metaJob.triggerNext
  /\ Len(allScrapeCandidates) >= 2
  /\ scrapeQueue = <<>>

\* A run without triggerNext has ended: jobs were prepared, the semesters are
\* saved, nothing is in the queue.
C36_SavedWithoutTrigger ==
  /\ metaPc = "done"
  /\ ~metaJob.triggerNext
  /\ jobsToTrigger # <<>>
  /\ semester_metadata # {}
  /\ scrapeQueue = <<>>

(***************************************************************************)
(* Properties of saveCourseSchedule: the sections that repeat a key.       *)
(***************************************************************************)
\* The places in c.sections of the sections with composite key k.
PlacesOfKey(c, k) == {j \in 1..Len(c.sections) : SectionPK(c.sections[j], c) = k}

\* The composite keys that several sections of c have.
RepeatedKeys(c) ==
  {k \in {SectionPK(c.sections[j], c) : j \in 1..Len(c.sections)} :
     Cardinality(PlacesOfKey(c, k)) > 1}

\* The first section of c with key k.
FirstOfKey(c, k) ==
  c.sections[CHOOSE j \in PlacesOfKey(c, k) : \A h \in PlacesOfKey(c, k) : j <= h]

\* One row is stored for key k, with the group and the remark of the first
\* section of c that has the key.
OneRowOfFirst(c, k) ==
  /\ Cardinality({r \in course_schedule : SchedulePK(r) = k}) = 1
  /\ \A r \in course_schedule :
       SchedulePK(r) = k => /\ r.group = FirstOfKey(c, k).group
                            /\ r.remark = FirstOfKey(c, k).remark

\* A batch that names each (course_code, acadsem) once has been committed.
CommittedOncePerCourse ==
  /\ Committed("saveCourseSchedule")
  /\ \A i, j \in 1..Len(call.batch) :
       i # j => ScheduleParent(call.batch[i]) # ScheduleParent(call.batch[j])

\* C33 as claimed: for every composite key that several sections of a course
\* have, one row is stored, with the group and remark of the first of them.
C33_AsClaimed ==
  CommittedOncePerCourse =>
    \A i \in 1..Len(call.batch) :
      \A k \in RepeatedKeys(call.batch[i]) : OneRowOfFirst(call.batch[i], k)

\* No section before the first one of key k has another key and the same
\* template string.
NoStringClash(c, k) ==
  \A j \in 1..Len(c.sections) :
    DedupKey(c.sections[j], c) = DedupKey(FirstOfKey(c, k), c)
      => SectionPK(c.sections[j], c) = k

\* What holds of the code: the same, for the keys whose template string no
\* section of another key shares.
C33_ButForStringClashes ==
  CommittedOncePerCourse =>
    \A i \in 1..Len(call.batch) :
      \A k \in {h \in RepeatedKeys(call.batch[i]) : NoStringClash(call.batch[i], h)} :
        OneRowOfFirst(call.batch[i], k)

\* Two sections repeat a key whose template string an earlier section of
\* another key has: no row of the key is stored.
C33_RepeatedKeyNotStored ==
  /\ CommittedOncePerCourse
  /\ \E i \in 1..Len(call.batch) :
       \E k \in RepeatedKeys(call.batch[i]) :
         \A r \in course_schedule : SchedulePK(r) # k

\* The sections of a repeated key without clash are stored as one row of the
\* first of them.
C33_FirstOfRepeatedKeyStored ==
  /\ CommittedOncePerCourse
  /\ \E i \in 1..Len(call.batch) :
       \E k \in RepeatedKeys(call.batch[i]) :
         /\ NoStringClash(call.batch[i], k)
         /\ OneRowOfFirst(call.batch[i], k)
         /\ \E j \in PlacesOfKey(call.batch[i], k) :
              call.batch[i].sections[j].group # FirstOfKey(call.batch[i], k).group

(***************************************************************************)
(* Properties of the callers of saveCourseSchedule.                        *)
(***************************************************************************)
\* The sections stored for the course, without their timestamps.
StoredSections ==
  {SectionFields(r) : r \in StoredOfCourse(course_schedule, RaceCourse(<<>>))}

\* The deduplicated section list of the call of w, as rows without timestamps.
SectionsOfCall(w) ==
  LET c == raceList[w][1]
      u == UniqueSections(c)
  IN  {SectionFields(ScheduleRow(u[i], c, now)) : i \in 1..Len(u)}

\* The job of w may be taken by the worker: no job is being processed.
WorkerFree == \A j \in QueueJobs : ~InFlight(j)

\* C34: no lock of the repository keeps a call on a course from starting
\* while another call on that course has its transaction open: the request
\* of the route can always begin, and a job can whenever the worker is free,
\* whatever the other callers have deleted or inserted.  The interleaving
\* whose outcome is the section list of neither call is the witness.
C34_NoLockExcludesOverlap ==
  /\ racePc["GET /schedule"] = "waiting" => ENABLED ScheduleCallBegin("GET /schedule")
  /\ (racePc["scrape-schedule"] = "waiting" /\ WorkerFree)
       => ENABLED ScheduleCallBegin("scrape-schedule")
  /\ \A w \in ScheduleCallers :
       racePc[w] = "delete" => ENABLED ScheduleCallDeleteStart(w)

\* The job and the request had their transactions open at once and both have
\* committed: the sections stored for the course are the deduplicated list of
\* neither of them.
C34_Witness ==
  /\ racePc["scrape-schedule"] = "done"
  /\ racePc["GET /schedule"] = "done"
  /\ racePc["scrape-backfill"] = "waiting"
  /\ {"scrape-schedule", "GET /schedule"} \in raceOverlapped
  /\ StoredSections # SectionsOfCall("scrape-schedule")
  /\ StoredSections # SectionsOfCall("GET /schedule")

\* C35 as claimed: no two calls of saveCourseSchedule on the course are in
\* flight at once, the jobs of the worker and the request of the route taken
\* together.
C35_AsClaimed ==
  \A w, v \in ScheduleCallers : (w # v /\ InFlight(w)) => ~InFlight(v)

\* What holds of the code: the two jobs of the queue are never in flight at
\* once.
C35_JobsSerialised ==
  \A w, v \in QueueJobs : (w # v /\ InFlight(w)) => ~InFlight(v)

\* The request of the route has deleted the rows of the course while the
\* schedule job is between its DELETE and its COMMIT.
C35_RouteOverlapsJob ==
  /\ racePc["scrape-schedule"] = "insert"
  /\ racePc["GET /schedule"] = "insert"

(***************************************************************************)
(* Properties of examScraper: the plans whose records are saved.           *)
(***************************************************************************)
\* What parseExamMetadata gave for the page of the plan of record i.
PlanDetailsOf(i) == planDetailsSeen[allExamsPlan[i]]

\* The page of the plan of record i gives a year and a semester, and they
\* are those of the acadsem the record carries.
PlanIsOfRecordSemester(i) ==
  /\ PlanDetailsOf(i) # <<>>
  /\ "examYear" \in DOMAIN PlanDetailsOf(i)[1]
  /\ PlanDetailsOf(i)[1].examYear \o <<"_">> \o PlanDetailsOf(i)[1].semester
       = allExams[i].acadsem

\* The page of the plan of record i gives neither a year nor a semester.
PlanSemesterUnknown(i) ==
  /\ PlanDetailsOf(i) # <<>>
  /\ "examYear" \notin DOMAIN PlanDetailsOf(i)[1]

\* The records handed to saveExamTimetable are the records collected, all
\* under the acadsem of the job.
SavedAreCollected ==
  /\ \A i \in 1..Len(allExams) : allExams[i].acadsem = scraperJob.acadsem
  /\ scraperSaved # Null => scraperSaved[1].exams = allExams

\* C37 as claimed: every record collected and saved under the acadsem of the
\* job was parsed from a plan whose page gives that year and semester; no
\* record of a plan of another semester, or of a plan whose semester is not
\* known, is among them.
C37_AsClaimed ==
  /\ SavedAreCollected
  /\ \A i \in 1..Len(allExams) : PlanIsOfRecordSemester(i)

\* What holds of the code: no record comes from a plan whose page gives
\* another semester; the plans whose page gives none are taken.
C37_NoPlanOfAnotherSemester ==
  /\ SavedAreCollected
  /\ \A i \in 1..Len(allExams) : PlanIsOfRecordSemester(i) \/ PlanSemesterUnknown(i)

\* Records of a plan whose page is the plan selection page are saved under
\* the acadsem of the job.
C37_UnknownPlanSaved ==
  /\ scraperPc = "returned"
  /\ scraperSaved # Null
  /\ \E i \in 1..Len(scraperSaved[1].exams) :
       /\ PlanSemesterUnknown(i)
       /\ scraperSaved[1].exams[i].acadsem = <<"2", "0", "2", "5", "_", "1">>

\* A plan of semester 2 of 2024-2025 was tried and gave no record, the plan
\* of semester 1 of 2025-2026 gave the records that are saved.
C37_OtherSemesterSkipped ==
  /\ scraperPc = "returned"
  /\ scraperSaved # Null
  /\ Len(planDetailsSeen) = 2
  /\ planDetailsSeen[1] # <<>>
  /\ "examYear" \in DOMAIN planDetailsSeen[1][1]
  /\ planDetailsSeen[1][1].examYear = <<"2", "0", "2", "4">>
  /\ \A i \in 1..Len(allExams) : allExamsPlan[i] = 2 /\ PlanIsOfRecordSemester(i)

====
